---- MODULE Spec2Model ----
(***************************************************************************)
(* PDF -> chunks -> embeddings -> Milvus ingestion (dulshanr/create-        *)
(* embeddings).  The module models                                          *)
(*   - PDFProcessor.chunk_text / UltraMemoryOptimizedPDFProcessor           *)
(*     .chunk_text_streaming: the sliding-window chunker, one loop          *)
(*     iteration per step;                                                  *)
(*   - PDFProcessor.extract_text_from_pdf and process_pdf;                  *)
(*   - PDFToMilvusBatch.store_pdf_with_progress with                        *)
(*     generate_embeddings_in_batches, EmbeddingGenerator.validate_embedding*)
(*     and MilvusClient.insert_documents;                                   *)
(*   - PDFPageProcessor.process_pdf_page_by_page and its chunk ids;         *)
(*   - PDFProcessor.__init__ on any CHUNK_SIZE / CHUNK_OVERLAP;             *)
(*   - _clean_text, on texts as character sequences;                        *)
(*   - store_multiple_pdfs_with_progress / process_multiple_pdfs;           *)
(*   - MilvusClient.create_collection and the dim of the embedding field;   *)
(*   - main of pdf_to_milvus_batch.py and of pdf_page_processor.py, up to   *)
(*     the exit code of the process;                                        *)
(*   - the ingest of one PDF called twice, and of a PDF whose chunks are    *)
(*     about MAX_TEXT_LENGTH characters long.                               *)
(* A text is modelled by its word list (text.split()); word i of a page is  *)
(* the number i, so that a lost or repeated word is visible.  An embedding  *)
(* is modelled by what validate_embedding reads of it: its length and       *)
(* whether all its elements are numbers.                                    *)
(***************************************************************************)
EXTENDS Integers, Sequences, FiniteSets, TLC

VARIABLES
    processor,      \* which chunker class runs: "PDFProcessor" or "Ultra"
    chunk_size,     \* self.chunk_size
    chunk_overlap,  \* self.chunk_overlap
    words,          \* chunk_text: words = text.split()
    chunk_id,       \* chunk_text: the chunk_id argument
    start,          \* chunk_text: start
    chunks,         \* chunk_text: the list built (the chunks yielded so far)
    pc,             \* position in the code
    entry,          \* the ingest entry point called: "batch" (PDFToMilvusBatch
                    \* .store_pdf_with_progress) or "page" (PDFPageProcessor
                    \* .process_pdf_page_by_page); "none" when the chunker runs alone
    pdf_exists,     \* os.path.exists(pdf_path)
    pdf_opens,      \* whether fitz.open(pdf_path) returns (FALSE: it raises)
    doc,            \* the PDF: per page, what get_text + _clean_text give
    page_num,       \* the page loop's page_num (zero-based)
    pages,          \* extract_text_from_pdf: pages
    page_idx,       \* process_pdf: position of "for page in pages" (1-based)
    all_chunks,     \* process_pdf: all_chunks
    chunk_counter,  \* process_pdf: chunk_counter
    batch_size,     \* self.batch_size
    embedding_batch_size,   \* self.embedding_batch_size
    i,              \* store_pdf_with_progress: i of "for i in range(0, total_chunks, batch_size)"
    batch,          \* store_pdf_with_progress: batch
    j,              \* generate_embeddings_in_batches: i of its own range loop
    chunks_with_embeddings, \* generate_embeddings_in_batches: chunks_with_embeddings
    v,              \* store_pdf_with_progress: position of the validation loop (1-based)
    valid_chunks,   \* store_pdf_with_progress: valid_chunks
    successful_chunks,      \* store_pdf_with_progress: successful_chunks
    failed_chunks,  \* store_pdf_with_progress: failed_chunks
    page_chunks,    \* process_pdf_page_by_page: page_chunks (LangChain's split of the page)
    chunk_idx,      \* process_pdf_page_by_page: chunk_idx
    total_embeddings,       \* process_pdf_page_by_page: total_embeddings
    result,         \* what ingest returned: "none" (not yet), "true", "false"
    store,          \* the rows of the Milvus collection, in insertion order
    calls,          \* history: the calls of the embedding model and of Milvus, in order
    faults,         \* history: collaborator calls that failed or answered wrongly so far
    text,           \* _clean_text: text
    raw_text,       \* history: the text _clean_text was called with
    has_collection, \* utility.has_collection(self.collection_name)
    fields,         \* the field names of the collection's schema in Milvus
    has_index,      \* whether the collection has an index on "embedding"
    dim,            \* Milvus: dim of the collection's "embedding" field
    dir_exists,     \* os.path.exists(pdf_directory)
    listing,        \* os.listdir(pdf_directory)
    pdf_files,      \* store_multiple_pdfs_with_progress: pdf_files
    file_idx,       \* position of "for pdf_file in pdf_files" (1-based)
    results,        \* store_multiple_pdfs_with_progress: results
    document_id,    \* the document_id the ingest runs with
    mode,           \* main: which of args.pdf / args.directory is given
    exit_code       \* the exit code of the process ("none": it runs)

chunkVars == <<processor, chunk_size, chunk_overlap, words, chunk_id, start, chunks>>

pdfVars == <<entry, pdf_exists, pdf_opens, doc>>

extractVars == <<page_num, pages>>

processVars == <<page_idx, all_chunks, chunk_counter>>

batchVars == <<i, batch, j, chunks_with_embeddings, v, valid_chunks,
               successful_chunks, failed_chunks>>

pageVars == <<page_chunks, chunk_idx, total_embeddings>>

sizeVars == <<batch_size, embedding_batch_size>>

cleanVars == <<text, raw_text>>

collectionVars == <<has_collection, fields, has_index, dim>>

directoryVars == <<dir_exists, listing, pdf_files, file_idx, results, document_id>>

\* the variables of the text cleaner, of create_collection, of the
\* directory loop and of main
cliVars == <<mode, exit_code>>

otherVars == <<cleanVars, collectionVars, directoryVars, cliVars>>

vars == <<chunkVars, pc, pdfVars, extractVars, processVars, batchVars, pageVars,
          sizeVars, result, store, calls, faults, otherVars>>

(***************************************************************************)
(* Program constants (config.py).                                          *)
(***************************************************************************)
CHUNK_SIZE == 1000

CHUNK_OVERLAP == 200

MAX_TEXT_LENGTH == 8192

\* DIMENSION of the default backend (USE_OPENAI_EMBEDDINGS unset)
DIMENSION == 384

\* create_collection: expected_field_names
expected_field_names == <<"id", "document_id", "page_number", "chunk_id", "text", "embedding">>

(***************************************************************************)
(* Bounds of the model.                                                    *)
(***************************************************************************)
\* chunk sizes 1..MaxSize are tried besides the configured CHUNK_SIZE
MaxSize == 3

\* page texts of 0..MaxWords words are tried for the small chunk sizes
MaxWords == 7

\* The list a diverging loop builds grows without bound; the model stops
\* appending after ChunkCap chunks.  No terminating run with a window that
\* advances emits more than one chunk per word, so the cap is above every
\* terminating run and only cuts runs that never end.
ChunkCap == MaxWords + 2

\* an ingested PDF has 0..MaxPages pages
MaxPages == 3

\* the long pages of an ingested PDF have MaxPageWords words after cleaning
MaxPageWords == 3

\* an ingested PDF has at most MaxDocWords words of cleaned text in all
MaxDocWords == 4

\* during one ingest at most MaxFaults calls of the embedding model or of
\* Milvus fail or answer with anything but what was asked for
MaxFaults == 2

\* every word of a text is WordChars characters long
WordChars == 5

Min(a, b) == IF a < b THEN a ELSE b

Max(a, b) == IF a < b THEN b ELSE a

\* the text whose words are 1, 2, ..., w
TextOf(w) == [k \in 1..w |-> k]

\* a slice bound k on a list of n items: a negative bound counts from the end,
\* and every bound is clamped to 0..n
SliceBound(k, n) == IF k < 0 THEN Max(k + n, 0) ELSE Min(k, n)

\* words[start:end] (Python slice of a list, zero-based, end exclusive)
Slice(s, from, to) == SubSeq(s, SliceBound(from, Len(s)) + 1, SliceBound(to, Len(s)))

Processors == {"PDFProcessor", "Ultra"}

\* (chunk_size, chunk_overlap) with 0 <= chunk_overlap < chunk_size
SmallConfigs == {c \in (1..MaxSize) \X (0..MaxSize) : c[2] < c[1]}

(***************************************************************************)
(* chunk_text (src/src/pdf_processor.py:55-88) and chunk_text_streaming     *)
(* (src/archive/pdf_processor_memory_optimized.py:120-157).                 *)
(***************************************************************************)
\* the record appended / yielded for the window [from, to)
Chunk(id, txt, from, to) ==
    [chunk_id |-> id, text |-> txt, start_word |-> from, end_word |-> to]

\* a window that starts one word after the place the code computes
NextStartGap(end) == end - chunk_overlap + 1

\* "start = end - self.chunk_overlap"
NextStart(end) == end - chunk_overlap

\* entry of the chunker up to the while loop: the short-text branch
ChunkTextEntry ==
    /\ pc = "chunk_text"
    /\ IF processor = "Ultra" /\ words = <<>>
       THEN \* chunk_text_streaming: "if not text.strip(): return"
            /\ pc' = "chunk_done"
            /\ UNCHANGED <<start, chunks>>
       ELSE IF Len(words) <= chunk_size
       THEN /\ chunks' = <<Chunk(chunk_id, words, 0, Len(words))>>
            /\ pc' = "chunk_done"
            /\ UNCHANGED start
       ELSE /\ start' = 0
            /\ pc' = "chunk_loop"
            /\ UNCHANGED chunks
    /\ UNCHANGED <<processor, chunk_size, chunk_overlap, words, chunk_id>>
    /\ UNCHANGED <<pdfVars, extractVars, processVars, batchVars, pageVars, sizeVars,
                   result, store, calls, faults>>
    /\ UNCHANGED otherVars

\* one evaluation of "while start < len(words)" and of the loop body
ChunkLoop ==
    /\ pc = "chunk_loop"
    /\ Len(chunks) < ChunkCap
    /\ IF start < Len(words)
       THEN LET end == Min(start + chunk_size, Len(words))
            IN /\ chunks' = Append(chunks,
                       Chunk(chunk_id + Len(chunks), Slice(words, start, end), start, end))
               /\ start' = NextStart(end)
               /\ pc' = IF NextStart(end) >= Len(words) THEN "chunk_done" ELSE "chunk_loop"
       ELSE /\ pc' = "chunk_done"
            /\ UNCHANGED <<start, chunks>>
    /\ UNCHANGED <<processor, chunk_size, chunk_overlap, words, chunk_id>>
    /\ UNCHANGED <<pdfVars, extractVars, processVars, batchVars, pageVars, sizeVars,
                   result, store, calls, faults>>
    /\ UNCHANGED otherVars


(***************************************************************************)
(* The PDF and the collaborators' answers.                                 *)
(***************************************************************************)
\* a page whose load_page / get_text raises
ExtractError == -1

\* per page: ExtractError, or the number of words of the cleaned page text
\* (0: the cleaned text is empty, as for an image-only page; 1: a short page)
PageKinds == {ExtractError, 0, 1, MaxPageWords}

\* the number of words of the cleaned text of the pages of d
RECURSIVE DocWords(_)
DocWords(d) ==
    IF d = <<>> THEN 0
    ELSE DocWords(SubSeq(d, 1, Len(d) - 1)) + Max(0, d[Len(d)])

\* the PDFs: at most MaxPages pages and MaxDocWords words
Docs == {d \in UNION {[1..n -> PageKinds] : n \in 0..MaxPages} : DocWords(d) <= MaxDocWords}

\* an embedding, by its length and whether all its elements are int or float
Vec(n, num) == [len |-> n, numeric |-> num]

\* what the embedding collaborator may return for one text
Vectors ==
    {Vec(DIMENSION, TRUE), Vec(DIMENSION - 1, TRUE), Vec(DIMENSION, FALSE), Vec(0, TRUE)}

\* generate_embeddings (src/src/embedding_generator.py:20-33) for n texts: a
\* list of at most n vectors; the empty list also when the model raises
Responses(n) == UNION {[1..k -> Vectors] : k \in 0..n}

\* generate_single_embedding (src/src/embedding_generator.py:35-46): one
\* vector, or [] when the model raises
SingleEmbeddings == {Vec(DIMENSION, TRUE), Vec(DIMENSION - 1, TRUE), Vec(0, TRUE)}

\* get_embedding_dimension (src/src/embedding_generator.py:79-87):
\* len(generate_single_embedding("test"))
get_embedding_dimension(probe) == probe.len

\* validate_embedding (src/src/embedding_generator.py:89-108), given what the
\* probe call inside it returned
validate_embedding(embedding, probe) ==
    IF embedding.len = 0 THEN FALSE
    ELSE IF ~embedding.numeric THEN FALSE
    ELSE LET expected_dim == get_embedding_dimension(probe)
         IN IF expected_dim > 0 /\ embedding.len # expected_dim THEN FALSE ELSE TRUE

\* number of characters of ' '.join(words)
TextChars(txt) == IF Len(txt) = 0 THEN 0 ELSE Len(txt) * WordChars + Len(txt) - 1

\* the word cut by a slice that ends inside it
CutWord == 0

\* str(text)[:MAX_TEXT_LENGTH]: the words that fit whole, then the cut word
Truncate(txt) ==
    IF TextChars(txt) <= MAX_TEXT_LENGTH THEN txt
    ELSE LET whole == (MAX_TEXT_LENGTH + 1) \div (WordChars + 1)
             used == IF whole = 0 THEN 0 ELSE whole * WordChars + whole - 1
         IN IF used + 1 < MAX_TEXT_LENGTH
            THEN Append(SubSeq(txt, 1, whole), CutWord)
            ELSE SubSeq(txt, 1, whole)

\* the document_id argument of an ingest of one PDF
DocumentId == "doc"

\* valid_doc of insert_documents (src/src/milvus_client.py:133-139)
Row(c) ==
    [document_id |-> c.document_id, page_number |-> c.page_number,
     chunk_id |-> c.chunk_id, text |-> Truncate(c.text), embedding |-> c.embedding]

\* The collection's embedding field is FLOAT_VECTOR(dim = DIMENSION)
\* (src/src/milvus_client.py:50): collection.insert raises on any other vector.
Insertable(docs) ==
    \A k \in 1..Len(docs) :
        docs[k].embedding.len = DIMENSION /\ docs[k].embedding.numeric

\* how insert_documents may end: "ok" (insert and flush returned: True),
\* "unflushed" (insert returned and flush raised: the rows were added, False),
\* "fail" (no collection, or insert raised: no row added, False)
InsertOutcomes(docs) == IF Insertable(docs) THEN {"ok", "unflushed", "fail"} ELSE {"fail"}

\* the outcomes after which the store holds the rows
RowsAdded == {"ok", "unflushed"}

\* the vector asked for
Good == Vec(DIMENSION, TRUE)

\* a collaborator call that went wrong uses up one of the MaxFaults
Fault(wrong) ==
    /\ wrong => faults < MaxFaults
    /\ faults' = IF wrong THEN faults + 1 ELSE faults

\* the zero-based page index taken as the page number
PageIndex(n) == n

\* "page_number": page_num + 1
PageNumber(n) == n + 1

(***************************************************************************)
(* PDFProcessor.extract_text_from_pdf (src/src/pdf_processor.py:14-40) and  *)
(* process_pdf (:90-125), as called by store_pdf_with_progress.             *)
(***************************************************************************)
\* "return False" of store_pdf_with_progress / process_pdf_page_by_page
ReturnFalse ==
    /\ result' = "false"
    /\ pc' = "done"

\* a path taken to exist whatever os.path.exists says
PathNeverMissing == FALSE

\* "if not os.path.exists(pdf_path)"
PathMissing == ~pdf_exists

\* store_pdf_with_progress up to the call of process_pdf
StorePdfEntry ==
    /\ pc = "store_pdf"
    /\ IF PathMissing
       THEN ReturnFalse
       ELSE /\ pc' = "extract_open"
            /\ UNCHANGED result
    /\ UNCHANGED <<chunkVars, pdfVars, extractVars, processVars, batchVars, pageVars,
                   sizeVars, store, calls, faults>>
    /\ UNCHANGED otherVars

\* "doc = fitz.open(pdf_path)"; when it raises, extract_text_from_pdf returns
\* [], process_pdf returns [] and store_pdf_with_progress returns False
ExtractOpen ==
    /\ pc = "extract_open"
    /\ IF ~pdf_opens
       THEN /\ ReturnFalse
            /\ UNCHANGED <<page_num, pages>>
       ELSE /\ page_num' = 0
            /\ pages' = <<>>
            /\ pc' = "extract"
            /\ UNCHANGED result
    /\ UNCHANGED <<chunkVars, pdfVars, processVars, batchVars, pageVars,
                   sizeVars, store, calls, faults>>
    /\ UNCHANGED otherVars

\* one iteration of "for page_num in range(len(doc))".  The loop stands inside
\* the function's only try block: a page that raises ends the function with [].
ExtractPage ==
    /\ pc = "extract"
    /\ page_num < Len(doc)
    /\ LET raw == doc[page_num + 1]
       IN IF raw = ExtractError
          THEN /\ pages' = <<>>
               /\ ReturnFalse
               /\ UNCHANGED page_num
          ELSE /\ pages' = IF raw > 0
                           THEN Append(pages, [page_number |-> PageNumber(page_num),
                                               text |-> TextOf(raw)])
                           ELSE pages
               /\ page_num' = page_num + 1
               /\ UNCHANGED <<pc, result>>
    /\ UNCHANGED <<chunkVars, pdfVars, processVars, batchVars, pageVars,
                   sizeVars, store, calls, faults>>
    /\ UNCHANGED otherVars

\* "return pages", and process_pdf's "if not pages: return []"
ExtractReturn ==
    /\ pc = "extract"
    /\ page_num >= Len(doc)
    /\ IF pages = <<>>
       THEN /\ ReturnFalse
            /\ UNCHANGED processVars
       ELSE /\ page_idx' = 1
            /\ all_chunks' = <<>>
            /\ chunk_counter' = 0
            /\ pc' = "process_pdf"
            /\ UNCHANGED result
    /\ UNCHANGED <<chunkVars, pdfVars, extractVars, batchVars, pageVars,
                   sizeVars, store, calls, faults>>
    /\ UNCHANGED otherVars

\* "for page in pages: page_chunks = self.chunk_text(page["text"], chunk_counter)"
ProcessPage ==
    /\ pc = "process_pdf"
    /\ page_idx <= Len(pages)
    /\ words' = pages[page_idx].text
    /\ chunk_id' = chunk_counter
    /\ start' = 0
    /\ chunks' = <<>>
    /\ pc' = "chunk_text"
    /\ UNCHANGED <<processor, chunk_size, chunk_overlap>>
    /\ UNCHANGED <<pdfVars, extractVars, processVars, batchVars, pageVars,
                   sizeVars, result, store, calls, faults>>
    /\ UNCHANGED otherVars

\* chunk.update({...}) for the page's chunks
Stamp(c, page) ==
    [chunk_id |-> c.chunk_id, text |-> c.text, start_word |-> c.start_word,
     end_word |-> c.end_word, document_id |-> document_id,
     page_number |-> page.page_number]

\* chunk_text returned: the page's chunks get their metadata and join all_chunks
PageChunked ==
    /\ pc = "chunk_done"
    /\ entry = "batch"
    /\ all_chunks' = all_chunks \o [k \in 1..Len(chunks) |-> Stamp(chunks[k], pages[page_idx])]
    /\ chunk_counter' = chunk_counter + Len(chunks)
    /\ page_idx' = page_idx + 1
    /\ pc' = "process_pdf"
    /\ UNCHANGED <<chunkVars, pdfVars, extractVars, batchVars, pageVars,
                   sizeVars, result, store, calls, faults>>
    /\ UNCHANGED otherVars

\* "return all_chunks", then "if not all_chunks: return False"
ProcessReturn ==
    /\ pc = "process_pdf"
    /\ page_idx > Len(pages)
    /\ IF all_chunks = <<>>
       THEN /\ ReturnFalse
            /\ UNCHANGED batchVars
       ELSE /\ i' = 0
            /\ successful_chunks' = 0
            /\ failed_chunks' = 0
            /\ pc' = "batch_loop"
            /\ UNCHANGED <<batch, j, chunks_with_embeddings, v, valid_chunks, result>>
    /\ UNCHANGED <<chunkVars, pdfVars, extractVars, processVars, pageVars,
                   sizeVars, store, calls, faults>>
    /\ UNCHANGED otherVars

(***************************************************************************)
(* Values of the ingest variables while the part that uses them is not     *)
(* running.                                                                *)
(***************************************************************************)
Idle ==
    /\ entry = "none"
    /\ pdf_exists = FALSE
    /\ pdf_opens = FALSE
    /\ doc = <<>>
    /\ batch_size = 1
    /\ embedding_batch_size = 1
    /\ store = <<>>

IdleBatch ==
    /\ page_num = 0
    /\ pages = <<>>
    /\ page_idx = 1
    /\ all_chunks = <<>>
    /\ chunk_counter = 0
    /\ i = 0
    /\ batch = <<>>
    /\ j = 0
    /\ chunks_with_embeddings = <<>>
    /\ v = 1
    /\ valid_chunks = <<>>
    /\ successful_chunks = 0
    /\ failed_chunks = 0
    /\ page_chunks = <<>>
    /\ chunk_idx = 0
    /\ total_embeddings = 0
    /\ result = "none"
    /\ calls = <<>>
    /\ faults = 0

\* no text is being cleaned, the collection of the ingest exists with its
\* index, no directory is being walked
IdleOther ==
    /\ text = <<>>
    /\ raw_text = <<>>
    /\ has_collection = TRUE
    /\ fields = expected_field_names
    /\ has_index = TRUE
    /\ dim = DIMENSION
    /\ dir_exists = FALSE
    /\ listing = <<>>
    /\ pdf_files = <<>>
    /\ file_idx = 1
    /\ results = <<>>
    /\ document_id = DocumentId
    /\ mode = "none"
    /\ exit_code = "none"

(***************************************************************************)
(* The chunker alone, on every small configuration and text, and on the    *)
(* configured CHUNK_SIZE / CHUNK_OVERLAP with texts around CHUNK_SIZE words.*)
(***************************************************************************)
ChunkInit ==
    /\ processor \in Processors
    /\ \E c \in SmallConfigs \cup {<<CHUNK_SIZE, CHUNK_OVERLAP>>} :
         /\ chunk_size = c[1]
         /\ chunk_overlap = c[2]
         /\ \E w \in IF c[1] = CHUNK_SIZE
                     THEN {CHUNK_SIZE - 1, CHUNK_SIZE, CHUNK_SIZE + 1}
                     ELSE 0..MaxWords :
              words = TextOf(w)
    /\ chunk_id \in {0, 4}
    /\ start = 0
    /\ chunks = <<>>
    /\ pc = "chunk_text"
    /\ Idle
    /\ IdleBatch
    /\ IdleOther

ChunkNext == ChunkTextEntry \/ ChunkLoop

ChunkSpec == ChunkInit /\ [][ChunkNext]_vars

\* the interpreter runs the loop as long as it can
FairChunkSpec == ChunkSpec /\ WF_vars(ChunkNext)

(***************************************************************************)
(* PDFToMilvusBatch.store_pdf_with_progress, the batch loop                 *)
(* (src/pdf_to_milvus_batch.py:158-217), with                               *)
(* generate_embeddings_in_batches (:90-132).                                *)
(***************************************************************************)
\* calls entry: which collaborator was called ("embed": generate_embeddings,
\* "probe": the generate_single_embedding("test") of validate_embedding,
\* "single": generate_single_embedding of a chunk, "insert": insert_documents),
\* during which batch (its offset i; the page for process_pdf_page_by_page),
\* for which chunks, the vectors returned (for insert: passed in), and for
\* insert whether it returned True
Call(kind, at, cs, vectors, ok) ==
    [kind |-> kind, at |-> at, ids |-> [k \in 1..Len(cs) |-> cs[k].chunk_id],
     vectors |-> vectors, ok |-> ok]

\* the embedding fields of documents
EmbeddingsOf(documents) == [k \in 1..Len(documents) |-> documents[k].embedding]

\* "return successful_chunks > 0"
StoreResult == IF successful_chunks > 0 THEN "true" ELSE "false"

\* "for i in range(0, total_chunks, self.batch_size): batch = all_chunks[i:i + self.batch_size]"
\* a batch that starts again at the last chunk of the batch before
BatchFromLast(f) == Slice(all_chunks, Max(f - 1, 0), f + batch_size)

\* "batch = all_chunks[i:i + self.batch_size]"
BatchFrom(f) == Slice(all_chunks, f, f + batch_size)

BatchLoop ==
    /\ pc = "batch_loop"
    /\ IF i < Len(all_chunks)
       THEN /\ batch' = BatchFrom(i)
            /\ j' = 0
            /\ chunks_with_embeddings' = <<>>
            /\ valid_chunks' = <<>>
            /\ v' = 1
            /\ pc' = "embed"
            /\ UNCHANGED result
       ELSE /\ result' = StoreResult
            /\ pc' = "done"
            /\ UNCHANGED <<batch, j, chunks_with_embeddings, valid_chunks, v>>
    /\ UNCHANGED <<i, successful_chunks, failed_chunks>>
    /\ UNCHANGED <<chunkVars, pdfVars, extractVars, processVars, pageVars,
                   sizeVars, store, calls, faults>>
    /\ UNCHANGED otherVars

\* chunk["embedding"] = embeddings[j]
WithEmbedding(c, e) ==
    [chunk_id |-> c.chunk_id, text |-> c.text, start_word |-> c.start_word,
     end_word |-> c.end_word, document_id |-> c.document_id,
     page_number |-> c.page_number, embedding |-> e]

\* the vectors given to the last chunks of the sub-batch instead of the first
AttachLast(sub, embeddings) ==
    LET k == Min(Len(sub), Len(embeddings))
    IN [x \in 1..k |-> WithEmbedding(sub[Len(sub) - k + x], embeddings[x])]

\* the chunks of a sub-batch that get a vector: "if j < len(embeddings)"
Attach(sub, embeddings) ==
    [k \in 1..Min(Len(sub), Len(embeddings)) |-> WithEmbedding(sub[k], embeddings[k])]

\* one iteration of generate_embeddings_in_batches' loop: one call of the
\* embedding collaborator for the sub-batch's texts
EmbedSubBatch ==
    /\ pc = "embed"
    /\ j < Len(batch)
    /\ LET sub == Slice(batch, j, j + embedding_batch_size)
       IN \E embeddings \in Responses(Len(sub)) :
            /\ Fault(embeddings # [k \in 1..Len(sub) |-> Good])
            /\ chunks_with_embeddings' = chunks_with_embeddings \o Attach(sub, embeddings)
            /\ calls' = Append(calls, Call("embed", i, sub, embeddings, TRUE))
    /\ j' = j + embedding_batch_size
    /\ UNCHANGED <<i, batch, v, valid_chunks, successful_chunks, failed_chunks>>
    /\ UNCHANGED <<chunkVars, pc, pdfVars, extractVars, processVars, pageVars,
                   sizeVars, result, store>>
    /\ UNCHANGED otherVars

\* a skipped batch counted as one failed chunk
FailedAfterSkipOne == failed_chunks + 1

\* "failed_chunks += len(batch)" of the two branches that skip the batch
FailedAfterSkip == failed_chunks + Len(batch)

\* "return chunks_with_embeddings", then "if not chunks_with_embeddings: ... continue"
EmbedReturn ==
    /\ pc = "embed"
    /\ j >= Len(batch)
    /\ IF chunks_with_embeddings = <<>>
       THEN /\ failed_chunks' = FailedAfterSkip
            /\ i' = i + batch_size
            /\ pc' = "batch_loop"
       ELSE /\ pc' = "validate"
            /\ UNCHANGED <<i, failed_chunks>>
    /\ UNCHANGED <<batch, j, chunks_with_embeddings, v, valid_chunks, successful_chunks>>
    /\ UNCHANGED <<chunkVars, pdfVars, extractVars, processVars, pageVars,
                   sizeVars, result, store, calls, faults>>
    /\ UNCHANGED otherVars

\* the probe call inside validate_embedding: a vector or [] (the model raised)
Probes == {Vec(DIMENSION, TRUE), Vec(DIMENSION - 1, TRUE), Vec(0, TRUE)}

\* validate_embedding gets as far as "expected_dim = self.get_embedding_dimension()":
\* the embedding is not empty and all its elements are int or float
ReachesProbe(embedding) == embedding.len > 0 /\ embedding.numeric

\* one iteration of "for chunk in chunks_with_embeddings: if validate_embedding(...)"
ValidateChunk ==
    /\ pc = "validate"
    /\ v <= Len(chunks_with_embeddings)
    /\ IF ReachesProbe(chunks_with_embeddings[v].embedding)
       THEN \E probe \in Probes :
              /\ Fault(probe # Good)
              /\ calls' = Append(calls,
                     Call("probe", i, <<chunks_with_embeddings[v]>>, <<probe>>, TRUE))
              /\ valid_chunks' =
                     IF validate_embedding(chunks_with_embeddings[v].embedding, probe)
                     THEN Append(valid_chunks, chunks_with_embeddings[v])
                     ELSE valid_chunks
       ELSE UNCHANGED <<calls, faults, valid_chunks>>
    /\ v' = v + 1
    /\ UNCHANGED <<i, batch, j, chunks_with_embeddings, successful_chunks, failed_chunks>>
    /\ UNCHANGED <<chunkVars, pc, pdfVars, extractVars, processVars, pageVars,
                   sizeVars, result, store>>
    /\ UNCHANGED otherVars

\* "if not valid_chunks: failed_chunks += len(batch) ... continue"
ValidateReturn ==
    /\ pc = "validate"
    /\ v > Len(chunks_with_embeddings)
    /\ IF valid_chunks = <<>>
       THEN /\ failed_chunks' = FailedAfterSkip
            /\ i' = i + batch_size
            /\ pc' = "batch_loop"
       ELSE /\ pc' = "insert"
            /\ UNCHANGED <<i, failed_chunks>>
    /\ UNCHANGED <<batch, j, chunks_with_embeddings, v, valid_chunks, successful_chunks>>
    /\ UNCHANGED <<chunkVars, pdfVars, extractVars, processVars, pageVars,
                   sizeVars, result, store, calls, faults>>
    /\ UNCHANGED otherVars

\* the rows collection.insert adds for documents
Rows(documents) == [k \in 1..Len(documents) |-> Row(documents[k])]

\* an insert that replaces the rows of the same document_id and chunk_id
Upserted(rows, documents) ==
    SelectSeq(rows, LAMBDA r : \A k \in 1..Len(documents) :
                  ~(r.document_id = documents[k].document_id
                    /\ r.chunk_id = documents[k].chunk_id))
        \o Rows(documents)

\* "self.collection.insert(valid_documents)": the primary key is auto_id, the
\* rows are added after those the collection has
Inserted(rows, documents) == rows \o Rows(documents)

\* a failed insertion counted as stored
CountInsertFailureAsStored ==
    /\ successful_chunks' = successful_chunks + Len(valid_chunks)
    /\ UNCHANGED failed_chunks

\* the counters after insert_documents returned False:
\* "failed_chunks += len(valid_chunks)"
CountInsertFailure ==
    /\ failed_chunks' = failed_chunks + Len(valid_chunks)
    /\ UNCHANGED successful_chunks

\* the counters after insert_documents returned True:
\* "successful_chunks += len(valid_chunks)"
CountInsertSuccess ==
    /\ successful_chunks' = successful_chunks + Len(valid_chunks)
    /\ UNCHANGED failed_chunks

\* "if self.milvus_client.insert_documents(valid_chunks): ... else: ...", with
\* insert_documents (src/src/milvus_client.py:95-172)
InsertBatch ==
    /\ pc = "insert"
    /\ \E outcome \in InsertOutcomes(valid_chunks) :
         /\ Fault(outcome # "ok" /\ Insertable(valid_chunks))
         /\ store' = IF outcome \in RowsAdded THEN Inserted(store, valid_chunks) ELSE store
         /\ IF outcome = "ok" THEN CountInsertSuccess ELSE CountInsertFailure
         /\ calls' = Append(calls,
                Call("insert", i, valid_chunks, EmbeddingsOf(valid_chunks), outcome = "ok"))
    /\ i' = i + batch_size
    /\ pc' = "batch_loop"
    /\ UNCHANGED <<batch, j, chunks_with_embeddings, v, valid_chunks>>
    /\ UNCHANGED <<chunkVars, pdfVars, extractVars, processVars, pageVars,
                   sizeVars, result>>
    /\ UNCHANGED otherVars

(***************************************************************************)
(* PDFPageProcessor.process_pdf_page_by_page                                *)
(* (src/pdf_page_processor.py:79-219).                                      *)
(***************************************************************************)
\* up to the page loop: the path check and fitz.open, which raises into the
\* function's outer except
PageByPageEntry ==
    /\ pc = "page_by_page"
    /\ IF PathMissing \/ ~pdf_opens
       THEN /\ ReturnFalse
            /\ UNCHANGED <<page_num, total_embeddings>>
       ELSE /\ page_num' = 0
            /\ total_embeddings' = 0
            /\ pc' = "page_loop"
            /\ UNCHANGED result
    /\ UNCHANGED <<chunkVars, pdfVars, pages, processVars, batchVars, page_chunks,
                   chunk_idx, sizeVars, store, calls, faults>>
    /\ UNCHANGED otherVars

\* _chunk_text_langchain (src/pdf_page_processor.py:221-233): the splitter's
\* pieces of a non-empty page text; [text] when the splitter raises.  The
\* pieces are modelled as the whole text or its cut in two at any word.
Splits(txt) ==
    {<<txt>>} \cup {<<SubSeq(txt, 1, c), SubSeq(txt, c + 1, Len(txt))>> : c \in 1..(Len(txt) - 1)}

\* the factor of "chunk_id = page_num * 1000 + chunk_idx"
PAGE_ID_STRIDE == 1000

\* "chunk_id = page_num * 1000 + chunk_idx"
PageChunkId(n, idx) == n * PAGE_ID_STRIDE + idx

\* one iteration of "for page_num in range(total_pages)" up to the chunk loop;
\* a page that raises is logged and the loop continues
PageLoop ==
    /\ pc = "page_loop"
    /\ page_num < Len(doc)
    /\ LET raw == doc[page_num + 1]
       IN IF raw = ExtractError \/ raw = 0
          THEN /\ page_num' = page_num + 1
               /\ UNCHANGED <<pc, page_chunks, chunk_idx>>
          ELSE /\ \E split \in Splits(TextOf(raw)) : page_chunks' = split
               /\ chunk_idx' = 0
               /\ pc' = "page_chunk"
               /\ UNCHANGED page_num
    /\ UNCHANGED <<chunkVars, pdfVars, pages, processVars, batchVars, total_embeddings,
                   sizeVars, result, store, calls, faults>>
    /\ UNCHANGED otherVars

\* "data" of process_pdf_page_by_page
PageData(n, idx, txt, e) ==
    [document_id |-> document_id, page_number |-> PageNumber(n),
     chunk_id |-> PageChunkId(n, idx), text |-> txt, embedding |-> e]

\* one iteration of "for chunk_idx, chunk_text in enumerate(page_chunks)";
\* after the last chunk the page is released and the page loop goes on
PageChunk ==
    /\ pc = "page_chunk"
    /\ IF chunk_idx < Len(page_chunks)
       THEN /\ \E embedding \in SingleEmbeddings :
                 IF embedding.len > 0
                 THEN LET data == PageData(page_num, chunk_idx, page_chunks[chunk_idx + 1],
                                           embedding)
                      IN \E outcome \in InsertOutcomes(<<data>>) :
                           /\ Fault(embedding # Good \/ outcome # "ok")
                           /\ calls' = calls \o
                                  <<Call("single", page_num, <<data>>, <<embedding>>, TRUE),
                                    Call("insert", page_num, <<data>>, <<embedding>>,
                                         outcome = "ok")>>
                           /\ store' = IF outcome \in RowsAdded
                                       THEN Inserted(store, <<data>>) ELSE store
                           /\ total_embeddings' = IF outcome = "ok"
                                                  THEN total_embeddings + 1
                                                  ELSE total_embeddings
                 ELSE /\ Fault(TRUE)
                      /\ calls' = Append(calls,
                             Call("single", page_num,
                                  <<[chunk_id |-> PageChunkId(page_num, chunk_idx)]>>,
                                  <<embedding>>, TRUE))
                      /\ UNCHANGED <<store, total_embeddings>>
            /\ chunk_idx' = chunk_idx + 1
            /\ UNCHANGED <<pc, page_num>>
       ELSE /\ page_num' = page_num + 1
            /\ pc' = "page_loop"
            /\ UNCHANGED <<chunk_idx, store, total_embeddings, faults, calls>>
    /\ UNCHANGED <<chunkVars, pdfVars, pages, processVars, batchVars, page_chunks,
                   sizeVars, result>>
    /\ UNCHANGED otherVars

\* after the last page: doc.close(), the summary, "return True"
PageByPageReturn ==
    /\ pc = "page_loop"
    /\ page_num >= Len(doc)
    /\ result' = "true"
    /\ pc' = "done"
    /\ UNCHANGED <<chunkVars, pdfVars, extractVars, processVars, batchVars, pageVars,
                   sizeVars, store, calls, faults>>
    /\ UNCHANGED otherVars

(***************************************************************************)
(* One ingest call on one PDF, by either entry point.                      *)
(***************************************************************************)
\* (chunk_size, chunk_overlap) of the ingest runs
IngestConfigs == {<<2, 0>>, <<2, 1>>}

\* (batch_size, embedding_batch_size) of the ingest runs
IngestSizes == {<<1, 1>>, <<2, 1>>, <<3, 2>>}

IngestInit ==
    /\ entry \in {"batch", "page"}
    /\ pdf_exists \in BOOLEAN
    /\ pdf_opens \in BOOLEAN
    /\ pdf_opens => pdf_exists
    /\ doc \in Docs
    /\ ~pdf_opens => doc = <<>>
    /\ processor = "PDFProcessor"
    /\ \E c \in IngestConfigs :
         /\ chunk_size = c[1]
         /\ chunk_overlap = c[2]
    /\ \E sizes \in IngestSizes :
         /\ batch_size = sizes[1]
         /\ embedding_batch_size = sizes[2]
    /\ entry = "page" =>
         /\ chunk_size = 2
         /\ chunk_overlap = 0
         /\ batch_size = 1
         /\ embedding_batch_size = 1
    /\ words = <<>>
    /\ chunk_id = 0
    /\ start = 0
    /\ chunks = <<>>
    /\ store = <<>>
    /\ IdleBatch
    /\ pc = IF entry = "batch" THEN "store_pdf" ELSE "page_by_page"
    /\ IdleOther

IngestNext ==
    \/ StorePdfEntry
    \/ ExtractOpen
    \/ ExtractPage
    \/ ExtractReturn
    \/ ProcessPage
    \/ ChunkTextEntry
    \/ ChunkLoop
    \/ PageChunked
    \/ ProcessReturn
    \/ BatchLoop
    \/ EmbedSubBatch
    \/ EmbedReturn
    \/ ValidateChunk
    \/ ValidateReturn
    \/ InsertBatch
    \/ PageByPageEntry
    \/ PageLoop
    \/ PageChunk
    \/ PageByPageReturn

IngestSpec == IngestInit /\ [][IngestNext]_vars

(***************************************************************************)
(* Claims about the chunker (ChunkSpec, FairChunkSpec).                    *)
(***************************************************************************)
\* every configuration tried satisfies the chunker's precondition
ValidConfig == 0 <= chunk_overlap /\ chunk_overlap < chunk_size

\* C1: with 0 <= CHUNK_OVERLAP < CHUNK_SIZE the chunker terminates and yields
\* a finite sequence of chunks: it never yields more chunks than the text has
\* words (one for a text of no word), and it eventually returns.
C1_ChunkerTerminates ==
    /\ [](ValidConfig => Len(chunks) <= Max(1, Len(words)))
    /\ <>(pc = "chunk_done")

\* ceil((w - CHUNK_OVERLAP) / (CHUNK_SIZE - CHUNK_OVERLAP))
CeilWindows(w) ==
    (w - chunk_overlap + (chunk_size - chunk_overlap) - 1) \div (chunk_size - chunk_overlap)

ExpectedChunks(w) == IF w <= chunk_size THEN 1 ELSE CeilWindows(w)

\* C3: a text of w >= 1 words yields exactly 1 chunk when w <= CHUNK_SIZE and
\* exactly ceil((w - CHUNK_OVERLAP) / (CHUNK_SIZE - CHUNK_OVERLAP)) chunks
\* otherwise: never more than that many, and that many once the chunker has
\* returned; with 1000 / 200 a 1001-word page gives exactly 2 chunks, the
\* second with start_word 800.  (The text of no word is C14's case.)
C3_ChunkCount ==
    Len(words) >= 1 =>
        /\ Len(chunks) <= ExpectedChunks(Len(words))
        /\ pc = "chunk_done" => Len(chunks) = ExpectedChunks(Len(words))
        /\ (chunk_size = CHUNK_SIZE /\ chunk_overlap = CHUNK_OVERLAP
              /\ Len(words) = CHUNK_SIZE + 1 /\ Len(chunks) >= 2)
             => chunks[2].start_word = CHUNK_SIZE - CHUNK_OVERLAP

\* the words a chunk shares with the chunk before it
OverlapWith(prev, c) == Max(0, Min(prev.end_word - c.start_word, Len(c.text)))

\* the first chunk whole, then of each later chunk the words after its
\* overlap with the previous chunk
RECURSIVE Reconstruct(_)
Reconstruct(cs) ==
    IF Len(cs) = 0 THEN <<>>
    ELSE IF Len(cs) = 1 THEN cs[1].text
    ELSE LET n == Len(cs)
             skip == OverlapWith(cs[n - 1], cs[n])
         IN Reconstruct(SubSeq(cs, 1, n - 1)) \o SubSeq(cs[n].text, skip + 1, Len(cs[n].text))

\* the chunks yielded so far leave no gap and hold the words of their ranges
NoGap ==
    /\ chunks[1].start_word = 0
    /\ \A k \in 1..Len(chunks) :
         /\ chunks[k].text = Slice(words, chunks[k].start_word, chunks[k].end_word)
         /\ k > 1 => chunks[k].start_word <= chunks[k - 1].end_word

C5_ConsecutiveOverlap ==
    \A k \in 1..Len(chunks) :
        /\ chunks[k].end_word - chunks[k].start_word <= chunk_size
        /\ k > 1 =>
             /\ chunks[k].start_word = chunks[k - 1].end_word - chunk_overlap
             /\ chunks[k].start_word > chunks[k - 1].start_word

(***************************************************************************)
(* Claims about one ingest call (IngestSpec).                              *)
(***************************************************************************)
\* C2: ingest returns without raising, and it returns true if and only if at
\* least one chunk of the document was stored in the vector store.
C2_TrueIffStored ==
    pc = "done" =>
        /\ result \in {"true", "false"}
        /\ result = "true" <=> store # <<>>

\* the offsets of the ingestion batches of all_chunks
BatchOffsets == {f \in 0..(Len(all_chunks) - 1) : f % batch_size = 0}

\* the chunks of the ingestion batch at offset f
BatchAt(f) == Slice(all_chunks, f, f + batch_size)

\* the calls of one kind, as indices of calls
CallsOf(kind) == {k \in 1..Len(calls) : calls[k].kind = kind}

\* call k returned the vector asked for, for every text it was given
AllGood(k) == calls[k].vectors = [m \in 1..Len(calls[k].ids) |-> Good]

\* the embedding collaborator returned no vector for the batch at offset f,
\* and no other collaborator call of the run went wrong
OnlyBatchFailsEmbedding(f) ==
    /\ \E k \in CallsOf("embed") : calls[k].at = f
    /\ \A k \in CallsOf("embed") :
         IF calls[k].at = f THEN calls[k].vectors = <<>> ELSE AllGood(k)
    /\ \A k \in CallsOf("probe") : AllGood(k)
    /\ \A k \in CallsOf("insert") : calls[k].ok

\* all_chunks without the batch at offset f
OtherBatches(f) ==
    SubSeq(all_chunks, 1, f) \o SubSeq(all_chunks, f + batch_size + 1, Len(all_chunks))

\* the rows of chunks cs, each with the vector asked for
StoredFrom(cs) == [k \in 1..Len(cs) |-> Row(WithEmbedding(cs[k], Good))]

\* C6: when the embedding collaborator returns no vectors for one ingestion
\* batch out of several and nothing else goes wrong, ingest returns true,
\* exactly that batch's chunks are counted as failed, successful_chunks is the
\* number of chunks of the other batches, and the store holds exactly the
\* other batches' chunks, in order.
C6_OneBatchFailsEmbedding ==
    (pc = "done" /\ entry = "batch" /\ Len(all_chunks) > batch_size) =>
        \A f \in BatchOffsets :
            OnlyBatchFailsEmbedding(f) =>
                /\ result = "true"
                /\ failed_chunks = Len(BatchAt(f))
                /\ successful_chunks = Len(all_chunks) - Len(BatchAt(f))
                /\ store = StoredFrom(OtherBatches(f))

\* C6's case: the embedding of a batch in the middle failed, the batches
\* before and after it were stored
C6_Witness ==
    /\ pc = "done"
    /\ entry = "batch"
    /\ result = "true"
    /\ \E f \in BatchOffsets :
         /\ f > 0
         /\ f + batch_size < Len(all_chunks)
         /\ OnlyBatchFailsEmbedding(f)
         /\ failed_chunks = Len(BatchAt(f))
         /\ Len(store) = Len(all_chunks) - Len(BatchAt(f))

\* the number of chunks handed to the insert calls of cs that returned ok
RECURSIVE ChunksInserted(_, _)
ChunksInserted(cs, ok) ==
    IF cs = <<>> THEN 0
    ELSE LET c == cs[Len(cs)]
         IN ChunksInserted(SubSeq(cs, 1, Len(cs) - 1), ok)
              + (IF c.kind = "insert" /\ c.ok = ok THEN Len(c.ids) ELSE 0)

\* the batches done with that never reached insert_documents
SkippedOffsets ==
    {f \in BatchOffsets : f < i /\ \A k \in CallsOf("insert") : calls[k].at # f}

\* the number of chunks of the batches at offsets fs
RECURSIVE ChunksOfBatches(_)
ChunksOfBatches(fs) ==
    IF fs = {} THEN 0
    ELSE LET f == CHOOSE x \in fs : TRUE
         IN Len(BatchAt(f)) + ChunksOfBatches(fs \ {f})

\* the batch at offset f got a vector for every chunk and passed validation
EmbeddedAndValid(f) ==
    /\ \A k \in CallsOf("embed") : calls[k].at = f => AllGood(k)
    /\ \A k \in CallsOf("probe") : calls[k].at = f => AllGood(k)

\* C7: after every batch, the chunks of a batch whose insertion returned
\* False are counted as failed and none of them as stored (successful_chunks
\* counts exactly the chunks of the insertions that returned True,
\* failed_chunks the chunks of the insertions that returned False and of the
\* batches skipped before insertion), and ingest goes on: when it returns,
\* every batch has been embedded and every batch that passed validation has
\* been handed to insertion, whatever happened to the batches before it.
C7_InsertFailureCountedAndSkipped ==
    (entry = "batch" /\ pc \in {"batch_loop", "done"}) =>
        /\ successful_chunks = ChunksInserted(calls, TRUE)
        /\ failed_chunks = ChunksInserted(calls, FALSE) + ChunksOfBatches(SkippedOffsets)
        /\ pc = "done" =>
             \A f \in BatchOffsets :
                 /\ \E k \in CallsOf("embed") : calls[k].at = f
                 /\ EmbeddedAndValid(f) =>
                      \E k \in CallsOf("insert") :
                          /\ calls[k].at = f
                          /\ Len(calls[k].ids) = Len(BatchAt(f))

\* C7's case: an insertion returned False, a later batch was inserted
C7_Witness ==
    /\ pc = "done"
    /\ entry = "batch"
    /\ result = "true"
    /\ \E k1, k2 \in CallsOf("insert") :
         /\ k1 < k2
         /\ ~calls[k1].ok
         /\ calls[k2].ok
         /\ failed_chunks = Len(calls[k1].ids)
         /\ successful_chunks >= Len(calls[k2].ids)

\* the pages of the PDF whose extraction raises / gives non-empty cleaned text
FailingPages == {n \in 1..Len(doc) : doc[n] = ExtractError}

UsablePages == {n \in 1..Len(doc) : doc[n] > 0}

\* page n was yielded and chunked: a chunk of it was generated
PageWasChunked(n) ==
    IF entry = "batch"
    THEN \E k \in 1..Len(all_chunks) : all_chunks[k].page_number = n
    ELSE \E k \in CallsOf("single") : calls[k].at = n - 1

\* C8: when the extraction of a page fails, only that page is skipped: once
\* ingest has returned, every page with non-empty text, before or after the
\* failing one, has been chunked, and with a usable page left and no other
\* failure the document does not fail.
C8_OnlyFailingPageSkipped ==
    (pc = "done" /\ FailingPages # {}) =>
        /\ \A n \in UsablePages : PageWasChunked(n)
        /\ (UsablePages # {} /\ faults = 0) => result = "true"

\* the pages extract_text_from_pdf holds after the first n pages of the PDF:
\* those of non-empty text, in order, numbered from 1
RECURSIVE NonBlankPages(_)
NonBlankPages(n) ==
    IF n = 0 THEN <<>>
    ELSE IF doc[n] > 0
    THEN Append(NonBlankPages(n - 1), [page_number |-> n, text |-> TextOf(doc[n])])
    ELSE NonBlankPages(n - 1)

\* a page number of the PDF whose page has non-empty cleaned text
TaggedNonBlank(pn) == pn \in 1..Len(doc) /\ doc[pn] > 0

\* C9: the pages are yielded in strictly increasing page order, each numbered
\* with its zero-based index plus 1 and holding that page's text, a page of
\* empty cleaned text yields no page, and every chunk generated and every row
\* stored carries the page_number of a page with non-empty cleaned text, the
\* chunks in page order.
C9_PageOrderAndNumbers ==
    /\ (entry = "batch" /\ result # "false") => pages = NonBlankPages(page_num)
    /\ \A k \in 1..Len(pages) :
         /\ TaggedNonBlank(pages[k].page_number)
         /\ k > 1 => pages[k - 1].page_number < pages[k].page_number
    /\ \A k \in 1..Len(all_chunks) :
         /\ TaggedNonBlank(all_chunks[k].page_number)
         /\ k > 1 => all_chunks[k - 1].page_number <= all_chunks[k].page_number
    /\ \A k \in 1..Len(store) : TaggedNonBlank(store[k].page_number)

\* C9's case: a PDF of three pages whose page 2 is blank, ingested and stored
\* with chunks tagged 1 and chunks tagged 3
C9_Witness ==
    /\ pc = "done"
    /\ entry = "batch"
    /\ Len(doc) = 3
    /\ doc[1] > 0 /\ doc[2] = 0 /\ doc[3] > 0
    /\ Len(store) = Len(all_chunks)
    /\ {store[k].page_number : k \in 1..Len(store)} = {1, 3}

\* C10: every chunk store_pdf_with_progress hands to insert_documents has a
\* non-empty, all-numeric embedding of length DIMENSION, whatever the
\* embedding collaborator returned for the chunks and for the probe.
C10_InsertedEmbeddingsHaveDimension ==
    entry = "batch" => \A k \in CallsOf("insert") : AllGood(k)

\* the chunk a chunk with an embedding was made from
WithoutEmbedding(c) ==
    [chunk_id |-> c.chunk_id, text |-> c.text, start_word |-> c.start_word,
     end_word |-> c.end_word, document_id |-> c.document_id,
     page_number |-> c.page_number]

\* the generate_embeddings calls made so far for the batch at offset f, in order
EmbedCallsAt(f) == SelectSeq(calls, LAMBDA c : c.kind = "embed" /\ c.at = f)

\* sub-batch number m (from 1) of the current batch
SubBatch(m) == Slice(batch, (m - 1) * embedding_batch_size, m * embedding_batch_size)

\* what the first m calls for the current batch leave in the output: of each
\* sub-batch of n chunks answered with k vectors, the first min(n, k) chunks,
\* the j-th with the j-th vector
RECURSIVE EmbeddedBy(_, _)
EmbeddedBy(cs, m) ==
    IF m = 0 THEN <<>>
    ELSE LET sub == SubBatch(m)
             k == Min(Len(sub), Len(cs[m].vectors))
         IN EmbeddedBy(cs, m - 1) \o [x \in 1..k |-> WithEmbedding(sub[x], cs[m].vectors[x])]

\* s is a subsequence of t, in t's order (both without repeated elements)
IsSubsequence(s, t) ==
    /\ \A x \in 1..Len(s) : \E y \in 1..Len(t) : t[y] = s[x]
    /\ \A x1, x2 \in 1..Len(s) :
         x1 < x2 => \E y1, y2 \in 1..Len(t) : y1 < y2 /\ t[y1] = s[x1] /\ t[y2] = s[x2]

\* C11: generate_embeddings_in_batches cuts the batch into consecutive
\* sub-batches of at most embedding_batch_size chunks, one collaborator call
\* each; its output is an order-preserving subsequence of the batch in which
\* the j-th chunk of a sub-batch carries the j-th vector returned for it, and
\* of a sub-batch of n chunks answered with k < n vectors exactly the last
\* n - k chunks are left out.
C11_SubBatchesAttachInOrder ==
    (entry = "batch" /\ pc \in {"embed", "validate", "insert"}) =>
        LET cs == EmbedCallsAt(i)
        IN /\ \A m \in 1..Len(cs) :
                /\ SubBatch(m) # <<>>
                /\ Len(SubBatch(m)) <= embedding_batch_size
                /\ cs[m].ids = [x \in 1..Len(SubBatch(m)) |-> SubBatch(m)[x].chunk_id]
           /\ pc # "embed" => Len(cs) * embedding_batch_size >= Len(batch)
           /\ chunks_with_embeddings = EmbeddedBy(cs, Len(cs))
           /\ Len(chunks_with_embeddings) <= Len(batch)
           /\ IsSubsequence([x \in 1..Len(chunks_with_embeddings) |->
                                 WithoutEmbedding(chunks_with_embeddings[x])], batch)

\* C11's case: a sub-batch of two chunks answered with one vector, whose first
\* chunk is in the output and whose second is not
C11_Witness ==
    /\ entry = "batch"
    /\ pc = "validate"
    /\ \E m \in 1..Len(EmbedCallsAt(i)) :
         /\ Len(SubBatch(m)) = 2
         /\ Len(EmbedCallsAt(i)[m].vectors) = 1
         /\ \E x \in 1..Len(chunks_with_embeddings) :
              chunks_with_embeddings[x].chunk_id = SubBatch(m)[1].chunk_id
         /\ \A x \in 1..Len(chunks_with_embeddings) :
              chunks_with_embeddings[x].chunk_id # SubBatch(m)[2].chunk_id

(***************************************************************************)
(* The chunk ids of process_pdf_page_by_page: the page loop and the chunk  *)
(* loop alone, on PDFs with a page of about PAGE_ID_STRIDE chunks.  doc    *)
(* gives the number of pieces the splitter makes of each page.             *)
(***************************************************************************)
\* a page of PAGE_ID_STRIDE - 1, PAGE_ID_STRIDE or PAGE_ID_STRIDE + 1 chunks
\* before or after a page of one chunk, or with a blank page between them
LongPageDocs ==
    UNION {{<<n, 1>>, <<1, n>>} :
             n \in {PAGE_ID_STRIDE - 1, PAGE_ID_STRIDE, PAGE_ID_STRIDE + 1}}
        \cup {<<PAGE_ID_STRIDE + 1, 0, 1>>}

IdInit ==
    /\ entry = "ids"
    /\ pdf_exists = TRUE
    /\ pdf_opens = TRUE
    /\ doc \in LongPageDocs
    /\ processor = "PDFProcessor"
    /\ chunk_size = CHUNK_SIZE
    /\ chunk_overlap = CHUNK_OVERLAP
    /\ batch_size = 1
    /\ embedding_batch_size = 1
    /\ words = <<>>
    /\ chunk_id = 0
    /\ start = 0
    /\ chunks = <<>>
    /\ store = <<>>
    /\ IdleBatch
    /\ pc = "id_page"
    /\ IdleOther

\* "for page_num in range(total_pages)": a page with text is chunked, a blank
\* page is passed over
IdPageLoop ==
    /\ pc = "id_page"
    /\ IF page_num >= Len(doc)
       THEN /\ pc' = "done"
            /\ UNCHANGED <<page_num, chunk_idx>>
       ELSE IF doc[page_num + 1] = 0
       THEN /\ page_num' = page_num + 1
            /\ UNCHANGED <<pc, chunk_idx>>
       ELSE /\ chunk_idx' = 0
            /\ pc' = "id_chunk"
            /\ UNCHANGED page_num
    /\ UNCHANGED <<chunkVars, pdfVars, pages, processVars, batchVars, page_chunks,
                   total_embeddings, sizeVars, result, store, calls, faults>>
    /\ UNCHANGED otherVars

\* "for chunk_idx, chunk_text in enumerate(page_chunks)": the chunk gets its
\* id once its embedding is generated (here every embedding is)
IdChunk ==
    /\ pc = "id_chunk"
    /\ IF chunk_idx >= doc[page_num + 1]
       THEN /\ page_num' = page_num + 1
            /\ pc' = "id_page"
            /\ UNCHANGED <<chunk_id, chunk_idx>>
       ELSE /\ chunk_id' = PageChunkId(page_num, chunk_idx)
            /\ pc' = "id_given"
            /\ chunk_idx' = chunk_idx + 1
            /\ UNCHANGED page_num
    /\ UNCHANGED <<processor, chunk_size, chunk_overlap, words, start, chunks,
                   pdfVars, pages, processVars, batchVars, page_chunks,
                   total_embeddings, sizeVars, result, store, calls, faults>>
    /\ UNCHANGED otherVars

\* the row with the id is inserted and the chunk loop goes on
IdGiven ==
    /\ pc = "id_given"
    /\ pc' = "id_chunk"
    /\ UNCHANGED <<chunkVars, pdfVars, extractVars, processVars, batchVars, pageVars,
                   sizeVars, result, store, calls, faults>>
    /\ UNCHANGED otherVars

IdNext == IdPageLoop \/ IdChunk \/ IdGiven

IdSpec == IdInit /\ [][IdNext]_vars

\* the chunks of the document that come before chunk idx of page n, as
\* <<page_num, chunk_idx>>
ChunksBefore(n, idx) ==
    {<<p, x>> \in (0..n) \X (0..(PAGE_ID_STRIDE + 1)) :
        /\ x < doc[p + 1]
        /\ p < n \/ x < idx}

\* C12: within one document the chunk ids are strictly increasing in page
\* order and then in the order of the chunks within a page, hence pairwise
\* distinct, for the running counter of process_pdf as for
\* page_num * 1000 + chunk_idx.
C12_ChunkIdsIncrease ==
    /\ \A k \in 2..Len(all_chunks) : all_chunks[k - 1].chunk_id < all_chunks[k].chunk_id
    /\ (entry = "ids" /\ pc = "id_given") =>
          \A c \in ChunksBefore(page_num, chunk_idx - 1) :
              PageChunkId(c[1], c[2]) < chunk_id

(***************************************************************************)
(* PDFProcessor() with any CHUNK_SIZE / CHUNK_OVERLAP in config.py, and    *)
(* then the chunker on a page text.                                        *)
(***************************************************************************)
\* (CHUNK_SIZE, CHUNK_OVERLAP) as config.py may set them
AnyConfigs == (1..MaxSize) \X (0..MaxSize)

ConfigInit ==
    /\ processor \in Processors
    /\ \E c \in AnyConfigs :
         /\ chunk_size = c[1]
         /\ chunk_overlap = c[2]
    /\ words \in {TextOf(w) : w \in 0..MaxWords}
    /\ chunk_id = 0
    /\ start = 0
    /\ chunks = <<>>
    /\ pc = "init"
    /\ Idle
    /\ IdleBatch
    /\ IdleOther

\* __init__: "self.chunk_size = CHUNK_SIZE; self.chunk_overlap = CHUNK_OVERLAP",
\* nothing is compared and nothing is raised; the processor is then used
PDFProcessorInit ==
    /\ pc = "init"
    /\ pc' = "chunk_text"
    /\ UNCHANGED <<chunkVars, pdfVars, extractVars, processVars, batchVars, pageVars,
                   sizeVars, result, store, calls, faults>>
    /\ UNCHANGED otherVars

ConfigNext == PDFProcessorInit \/ ChunkTextEntry \/ ChunkLoop

ConfigSpec == ConfigInit /\ [][ConfigNext]_vars

\* C13: a configuration with CHUNK_OVERLAP >= CHUNK_SIZE is rejected with a
\* ConfigurationError when the processor is configured; the chunker is never
\* run with such a configuration.
C13_OverlapRejected ==
    chunk_overlap >= chunk_size =>
        \/ pc = "init"
        \/ result = "ConfigurationError" /\ chunks = <<>>

\* C14: for an empty or whitespace-only text (a text of no word) the chunker
\* returns an empty sequence: no chunk is emitted, none with empty text in
\* particular.
C14_EmptyTextNoChunk ==
    (words = <<>> /\ pc = "chunk_done") =>
        /\ chunks = <<>>
        /\ \A k \in 1..Len(chunks) : chunks[k].text # <<>>

(***************************************************************************)
(* _clean_text (src/src/pdf_processor.py:42-53, src/pdf_page_processor.py: *)
(* 235-250).  A text is here the sequence of its characters.               *)
(***************************************************************************)
\* texts of up to MaxText characters are cleaned
MaxText == 5

\* the characters the texts are made of: of those matching \w, of those
\* matching \s, of the punctuation the second pattern keeps, and of the
\* characters it removes
Alphabet == {"a", " ", "\n", ".", "@"}

\* \w
WordCharacters == {"a"}

\* \s, and what str.split() splits at
Whitespace == {" ", "\n"}

\* \. \, \! \? \; \: \- \( \) \[ \] \{ \}
KeptPunctuation == {".", ",", "!", "?", ";", ":", "-", "(", ")", "[", "]", "{", "}"}

Texts == UNION {[1..n -> Alphabet] : n \in 0..MaxText}

\* t without its leading whitespace
RECURSIVE LStrip(_)
LStrip(t) ==
    IF t # <<>> /\ Head(t) \in Whitespace THEN LStrip(Tail(t)) ELSE t

\* t without its trailing whitespace
RECURSIVE RStrip(_)
RStrip(t) ==
    IF t # <<>> /\ t[Len(t)] \in Whitespace THEN RStrip(SubSeq(t, 1, Len(t) - 1)) ELSE t

\* re.sub(r'\s+', ' ', text)
RECURSIVE SubWhitespace(_)
SubWhitespace(t) ==
    IF t = <<>> THEN <<>>
    ELSE IF Head(t) \in Whitespace
    THEN <<" ">> \o SubWhitespace(LStrip(t))
    ELSE <<Head(t)>> \o SubWhitespace(Tail(t))

\* every character kept
KeepSpecial(t) == t

\* re.sub(r'[^\w\s\.\,\!\?\;\:\-\(\)\[\]\{\}]', '', text)
RemoveSpecial(t) ==
    SelectSeq(t, LAMBDA c : c \in WordCharacters \cup Whitespace \cup KeptPunctuation)

\* the length of the longest prefix of t without whitespace
RECURSIVE WordLen(_)
WordLen(t) ==
    IF t = <<>> \/ Head(t) \in Whitespace THEN 0 ELSE 1 + WordLen(Tail(t))

\* text.split()
RECURSIVE Split(_)
Split(t) ==
    LET u == LStrip(t)
    IN IF u = <<>> THEN <<>>
       ELSE <<SubSeq(u, 1, WordLen(u))>> \o Split(SubSeq(u, WordLen(u) + 1, Len(u)))

\* ' '.join(ws)
RECURSIVE Join(_)
Join(ws) ==
    IF ws = <<>> THEN <<>>
    ELSE IF Len(ws) = 1 THEN ws[1]
    ELSE ws[1] \o <<" ">> \o Join(Tail(ws))

\* the whitespace left as the first two statements leave it
NormalizeNot(t) == t

\* "text = ' '.join(text.split())" and "return text.strip()"
Normalize(t) == RStrip(LStrip(Join(Split(t))))

\* _clean_text(text)
clean_text(t) ==
    IF t = <<>> THEN <<>>
    ELSE Normalize(RemoveSpecial(SubWhitespace(t)))

CleanInit ==
    /\ raw_text \in Texts
    /\ text = raw_text
    /\ pc = "clean"
    /\ processor = "PDFProcessor"
    /\ chunk_size = CHUNK_SIZE
    /\ chunk_overlap = CHUNK_OVERLAP
    /\ words = <<>>
    /\ chunk_id = 0
    /\ start = 0
    /\ chunks = <<>>
    /\ Idle
    /\ IdleBatch
    /\ has_collection = TRUE
    /\ fields = expected_field_names
    /\ has_index = TRUE
    /\ dim = DIMENSION
    /\ dir_exists = FALSE
    /\ listing = <<>>
    /\ pdf_files = <<>>
    /\ file_idx = 1
    /\ results = <<>>
    /\ document_id = DocumentId
    /\ mode = "none"
    /\ exit_code = "none"

\* "text = self._clean_text(text)"
CleanText ==
    /\ pc = "clean"
    /\ text' = clean_text(text)
    /\ pc' = "cleaned"
    /\ UNCHANGED <<chunkVars, pdfVars, extractVars, processVars, batchVars, pageVars,
                   sizeVars, result, store, calls, faults>>
    /\ UNCHANGED <<raw_text, collectionVars, directoryVars, cliVars>>

\* _clean_text called on its own result
CleanAgain ==
    /\ pc = "cleaned"
    /\ text' = clean_text(text)
    /\ pc' = "recleaned"
    /\ UNCHANGED <<chunkVars, pdfVars, extractVars, processVars, batchVars, pageVars,
                   sizeVars, result, store, calls, faults>>
    /\ UNCHANGED <<raw_text, collectionVars, directoryVars, cliVars>>

CleanNext == CleanText \/ CleanAgain

CleanSpec == CleanInit /\ [][CleanNext]_vars

\* C15: _clean_text is idempotent: cleaning a cleaned text gives the cleaned
\* text again, clean(clean(t)) = clean(t), for every text t.
C15_CleanIdempotent ==
    /\ pc = "cleaned" => text = clean_text(raw_text)
    /\ pc = "recleaned" => text = clean_text(raw_text)

\* a text that cleaning changes, with a removed character between two spaces,
\* cleaned twice
C15_Witness ==
    /\ pc = "recleaned"
    /\ raw_text = <<"\n", "a", " ", "@", " ">>
    /\ text = <<"a">>

\* C16: clean(text) has only word characters, single spaces and the kept
\* punctuation, no whitespace at either end and no two adjacent whitespace
\* characters, and is empty when the input has only whitespace and filtered
\* characters.
C16_CleanShape ==
    pc = "cleaned" =>
        /\ \A k \in 1..Len(text) : text[k] \in WordCharacters \cup {" "} \cup KeptPunctuation
        /\ text # <<>> => text[1] \notin Whitespace /\ text[Len(text)] \notin Whitespace
        /\ \A k \in 1..(Len(text) - 1) : ~(text[k] \in Whitespace /\ text[k + 1] \in Whitespace)
        /\ (\A k \in 1..Len(raw_text) :
                raw_text[k] \in Whitespace \/ raw_text[k] \notin WordCharacters \cup KeptPunctuation)
             => text = <<>>

\* a removed character between two spaces: one space is left
C16_Witness ==
    /\ pc = "cleaned"
    /\ raw_text = <<"a", " ", "@", " ", ".">>
    /\ text = <<"a", " ", ".">>

\* C17: when pdf_path does not exist the ingest fails at once: it returns
\* False without opening a PDF, without a call of the embedding model or of
\* insert_documents, and the rows of the collection are as before (none).
C17_MissingPathFailsAtOnce ==
    ((entry \in {"batch", "page"}) /\ ~pdf_exists) =>
        /\ pc \in {"store_pdf", "page_by_page", "done"}
        /\ pc = "done" => result = "false"
        /\ calls = <<>>
        /\ store = <<>>

C17_Witness ==
    /\ entry \in {"batch", "page"}
    /\ ~pdf_exists
    /\ pc = "done"
    /\ result = "false"

(***************************************************************************)
(* store_multiple_pdfs_with_progress (src/pdf_to_milvus_batch.py:223-263)  *)
(* and process_multiple_pdfs (src/pdf_page_processor.py:252-293): the      *)
(* directory loop around the ingest of one PDF.  A file name is the        *)
(* sequence of its characters.  During the ingest of a directory up to     *)
(* MaxFaults - 1 calls of the embedding model or of Milvus go wrong.       *)
(***************************************************************************)
\* a directory has 0..MaxFiles files
MaxFiles == 2

Dot == "."

PdfSuffix == <<Dot, "p", "d", "f">>

\* the file names tried: a.pdf, b.pdf, a.b.pdf, n.txt, pdf
FileNames ==
    {<<"a">> \o PdfSuffix, <<"b">> \o PdfSuffix, <<"a", Dot, "b">> \o PdfSuffix,
     <<"n", Dot, "t", "x", "t">>, <<"p", "d", "f">>}

\* the pages of the PDFs of a directory that open: none, or one long page
DirDocs == {<<>>, <<MaxPageWords>>}

\* a file of the directory: its name and, for a PDF, whether it opens and
\* its pages
Files ==
    {[name |-> n, opens |-> FALSE, doc |-> <<>>] : n \in FileNames}
        \cup {[name |-> n \o PdfSuffix, opens |-> TRUE, doc |-> d] :
                n \in {<<"a">>, <<"b">>, <<"a", Dot, "b">>}, d \in DirDocs}

\* os.listdir: files of distinct names, in any order
Listings ==
    {l \in UNION {[1..n -> Files] : n \in 0..MaxFiles} :
        \A x, y \in 1..Len(l) : x # y => l[x].name # l[y].name}

\* str.lower() of one character
LowerChar(c) ==
    CASE c = "P" -> "p" [] c = "D" -> "d" [] c = "F" -> "f" [] OTHER -> c

\* f.lower()
Lower(f) == [k \in 1..Len(f) |-> LowerChar(f[k])]

\* s.endswith(suffix)
EndsWith(s, suffix) ==
    /\ Len(s) >= Len(suffix)
    /\ SubSeq(s, Len(s) - Len(suffix) + 1, Len(s)) = suffix

\* "f.lower().endswith('.pdf')" / pdf_dir.glob("*.pdf")
IsPdfFile(f) ==
    IF entry = "batch" THEN EndsWith(Lower(f), PdfSuffix) ELSE EndsWith(f, PdfSuffix)

\* os.path.splitext(pdf_file)[0] / Path(pdf_path).stem: the name is cut at
\* its last dot, unless only dots come before it
RECURSIVE SplitextRoot(_, _)
SplitextRoot(f, k) ==
    IF k <= 1 THEN f
    ELSE IF f[k] = Dot
    THEN IF \E x \in 1..(k - 1) : f[x] # Dot THEN SubSeq(f, 1, k - 1) ELSE f
    ELSE SplitextRoot(f, k - 1)

\* the file of the directory with the name f
FileNamed(f) == CHOOSE file \in {listing[k] : k \in 1..Len(listing)} : file.name = f

\* the loop position after a file, were the loop to end at the first failure
AfterFileUntilFailure(success) == IF success THEN file_idx + 1 ELSE Len(pdf_files) + 1

\* "for pdf_file in pdf_files": the next file, whatever the ingest returned
AfterFile(success) == file_idx + 1

DirInit ==
    /\ entry \in {"batch", "page"}
    /\ dir_exists \in BOOLEAN
    /\ listing \in Listings
    /\ ~dir_exists => listing = <<>>
    /\ pdf_files = <<>>
    /\ file_idx = 1
    /\ results = <<>>
    /\ document_id = <<>>
    /\ mode = "none"
    /\ exit_code = "none"
    /\ pdf_exists = FALSE
    /\ pdf_opens = FALSE
    /\ doc = <<>>
    /\ processor = "PDFProcessor"
    /\ chunk_size = 2
    /\ chunk_overlap = 0
    /\ batch_size = 1
    /\ embedding_batch_size = 1
    /\ words = <<>>
    /\ chunk_id = 0
    /\ start = 0
    /\ chunks = <<>>
    /\ store = <<>>
    /\ page_num = 0
    /\ pages = <<>>
    /\ page_idx = 1
    /\ all_chunks = <<>>
    /\ chunk_counter = 0
    /\ i = 0
    /\ batch = <<>>
    /\ j = 0
    /\ chunks_with_embeddings = <<>>
    /\ v = 1
    /\ valid_chunks = <<>>
    /\ successful_chunks = 0
    /\ failed_chunks = 0
    /\ page_chunks = <<>>
    /\ chunk_idx = 0
    /\ total_embeddings = 0
    /\ result = "none"
    /\ calls = <<>>
    /\ faults = MaxFaults - 1
    /\ text = <<>>
    /\ raw_text = <<>>
    /\ has_collection = TRUE
    /\ fields = expected_field_names
    /\ has_index = TRUE
    /\ dim = DIMENSION
    /\ pc = "dir"

\* up to the loop: the directory check, the listing and its filter
DirEntry ==
    /\ pc = "dir"
    /\ IF ~dir_exists
       THEN /\ pc' = "dir_done"
            /\ UNCHANGED pdf_files
       ELSE LET names == [k \in 1..Len(listing) |-> listing[k].name]
                found == SelectSeq(names, IsPdfFile)
            IN /\ pdf_files' = found
               /\ pc' = IF found = <<>> THEN "dir_done" ELSE "dir_loop"
    /\ file_idx' = 1
    /\ results' = <<>>
    /\ UNCHANGED <<chunkVars, pdfVars, extractVars, processVars, batchVars, pageVars,
                   sizeVars, result, store, calls, faults>>
    /\ UNCHANGED <<cleanVars, collectionVars, dir_exists, listing, document_id, cliVars>>

\* the loop head: "pdf_path = os.path.join(pdf_directory, pdf_file)",
\* "document_id = os.path.splitext(pdf_file)[0]" and the call of the ingest,
\* which starts with fresh locals; after the last file "return results"
DirLoop ==
    /\ pc = "dir_loop"
    /\ IF file_idx > Len(pdf_files)
       THEN /\ pc' = "dir_done"
            /\ UNCHANGED <<chunkVars, pdfVars, extractVars, processVars, batchVars,
                           pageVars, result, document_id>>
       ELSE LET pdf_file == pdf_files[file_idx]
            IN /\ document_id' = SplitextRoot(pdf_file, Len(pdf_file))
               /\ pdf_exists' = TRUE
               /\ pdf_opens' = FileNamed(pdf_file).opens
               /\ doc' = FileNamed(pdf_file).doc
               /\ pc' = IF entry = "batch" THEN "store_pdf" ELSE "page_by_page"
               /\ result' = "none"
               /\ words' = <<>>
               /\ chunk_id' = 0
               /\ start' = 0
               /\ chunks' = <<>>
               /\ page_num' = 0
               /\ pages' = <<>>
               /\ page_idx' = 1
               /\ all_chunks' = <<>>
               /\ chunk_counter' = 0
               /\ i' = 0
               /\ batch' = <<>>
               /\ j' = 0
               /\ chunks_with_embeddings' = <<>>
               /\ v' = 1
               /\ valid_chunks' = <<>>
               /\ successful_chunks' = 0
               /\ failed_chunks' = 0
               /\ page_chunks' = <<>>
               /\ chunk_idx' = 0
               /\ total_embeddings' = 0
               /\ UNCHANGED <<processor, chunk_size, chunk_overlap, entry>>
    /\ UNCHANGED <<sizeVars, store, calls, faults>>
    /\ UNCHANGED <<cleanVars, collectionVars, dir_exists, listing, pdf_files, file_idx,
                   results, cliVars>>

\* the ingest returned: "results[pdf_file] = {...}" (in process_multiple_pdfs
\* "results[pdf_file.name] = success") and the next file
DirRecord ==
    /\ pc = "done"
    /\ dir_exists
    /\ LET pdf_file == pdf_files[file_idx]
           success == result = "true"
       IN /\ results' =
                 [f \in DOMAIN results \cup {pdf_file} |->
                     IF f = pdf_file
                     THEN IF entry = "batch"
                          THEN [success |-> success, document_id |-> document_id]
                          ELSE [success |-> success]
                     ELSE results[f]]
          /\ file_idx' = AfterFile(success)
    /\ pc' = "dir_loop"
    /\ UNCHANGED <<chunkVars, pdfVars, extractVars, processVars, batchVars, pageVars,
                   sizeVars, result, store, calls, faults>>
    /\ UNCHANGED <<cleanVars, collectionVars, dir_exists, listing, pdf_files, document_id,
                   cliVars>>

DirNext == DirEntry \/ DirLoop \/ DirRecord \/ IngestNext

DirSpec == DirInit /\ [][DirNext]_vars

\* the position of the last dot of f (0: no dot)
LastDot(f) ==
    LET dots == {k \in 1..Len(f) : f[k] = Dot}
    IN IF dots = {} THEN 0 ELSE CHOOSE k \in dots : \A x \in dots : x <= k

\* the file name without its extension
WithoutExtension(f) == IF LastDot(f) > 1 THEN SubSeq(f, 1, LastDot(f) - 1) ELSE f

\* the *.pdf files of the directory
PdfFilesOfDirectory ==
    {listing[k].name : k \in {x \in 1..Len(listing) : EndsWith(listing[x].name, PdfSuffix)}}

\* the files whose ingest has returned and was recorded
FilesDone == {pdf_files[k] : k \in 1..Min(file_idx - 1, Len(pdf_files))}

\* the position in pdf_files of the file ingested under the document id d
FilePosition(d) == CHOOSE k \in 1..Len(pdf_files) : WithoutExtension(pdf_files[k]) = d

MaxEnsures == 3

\* the field names of a collection found in Milvus: the expected ones, the
\* expected ones in another order, one missing, one more, those of another
\* application
ExistingSchemas ==
    {expected_field_names,
     <<"id", "document_id", "chunk_id", "page_number", "text", "embedding">>,
     <<"id", "document_id", "page_number", "text", "embedding">>,
     Append(expected_field_names, "page_width"),
     <<"id", "vector">>}

\* DIMENSION with USE_OPENAI_EMBEDDINGS set
OPENAI_DIMENSION == 1536

\* the dim of the embedding field of a collection found in Milvus: that of a
\* collection created under either backend
ExistingDimensions == {DIMENSION, OPENAI_DIMENSION}

\* a row found in the collection
ExistingRow ==
    [document_id |-> DocumentId, page_number |-> 1, chunk_id |-> 0,
     text |-> TextOf(1), embedding |-> Good]

\* the Milvus calls of create_collection, in the order it may make them
MilvusCalls == {"has_collection", "Collection", "drop_collection", "create", "create_index"}

\* every schema taken to match
SchemaMatchesAlways(names) == TRUE

\* no schema taken to match
SchemaMatchesNever(names) == FALSE

\* "existing_field_names != expected_field_names" does not hold
SchemaMatches(names) == names = expected_field_names

\* history entry of one create_collection call: the collection before it,
\* whether it dropped and whether it created the collection, what it returned
\* and the collection after it
EnsureCall(dropped, created, ok, has, names, rows) ==
    [kind |-> "create_collection",
     before |-> [has |-> has_collection, names |-> fields, rows |-> store],
     dropped |-> dropped, created |-> created, ok |-> ok,
     after |-> [has |-> has, names |-> names, rows |-> rows]]

CollectionInit ==
    /\ has_collection \in BOOLEAN
    /\ fields \in ExistingSchemas
    /\ store \in {<<>>, <<ExistingRow>>}
    /\ has_index \in BOOLEAN
    /\ dim \in ExistingDimensions
    /\ ~has_collection => fields = expected_field_names /\ store = <<>> /\ ~has_index
    /\ ~has_collection => dim = DIMENSION
    /\ pc = "create_collection"
    /\ entry = "none"
    /\ pdf_exists = FALSE
    /\ pdf_opens = FALSE
    /\ doc = <<>>
    /\ processor = "PDFProcessor"
    /\ chunk_size = CHUNK_SIZE
    /\ chunk_overlap = CHUNK_OVERLAP
    /\ batch_size = 1
    /\ embedding_batch_size = 1
    /\ words = <<>>
    /\ chunk_id = 0
    /\ start = 0
    /\ chunks = <<>>
    /\ IdleBatch
    /\ text = <<>>
    /\ raw_text = <<>>
    /\ dir_exists = FALSE
    /\ listing = <<>>
    /\ pdf_files = <<>>
    /\ file_idx = 1
    /\ results = <<>>
    /\ document_id = DocumentId
    /\ mode = "none"
    /\ exit_code = "none"

\* create_collection, whole: raised is the set of its Milvus calls that raise
\* when they are made.  Every exception but that of create_index ends the
\* function with False.
create_collection ==
    /\ pc = "create_collection"
    /\ Len(calls) < MaxEnsures
    /\ \E raised \in SUBSET MilvusCalls :
         LET opened  == has_collection /\ "has_collection" \notin raised
                                       /\ "Collection" \notin raised
             mismatch == opened /\ ~SchemaMatches(fields)
             dropped == mismatch /\ "drop_collection" \notin raised
             creates == /\ "has_collection" \notin raised
                        /\ \/ ~has_collection
                           \/ dropped
             created == creates /\ "create" \notin raised
             ok      == /\ "has_collection" \notin raised
                        /\ has_collection => "Collection" \notin raised
                        /\ mismatch => dropped
                        /\ creates => created
             indexed == ok /\ "create_index" \notin raised
             has     == IF created THEN TRUE ELSE IF dropped THEN FALSE ELSE has_collection
             names   == IF created \/ dropped THEN expected_field_names ELSE fields
             rows    == IF created \/ dropped THEN <<>> ELSE store
             made    == {"has_collection"}
                          \cup (IF has_collection /\ "has_collection" \notin raised
                                THEN {"Collection"} ELSE {})
                          \cup (IF mismatch THEN {"drop_collection"} ELSE {})
                          \cup (IF creates THEN {"create"} ELSE {})
                          \cup (IF ok THEN {"create_index"} ELSE {})
         IN /\ raised \subseteq made
            /\ Fault(raised # {})
            /\ has_collection' = has
            /\ fields' = names
            /\ store' = rows
            /\ has_index' = IF indexed THEN TRUE
                            ELSE IF created \/ dropped THEN FALSE ELSE has_index
            /\ dim' = IF created \/ dropped THEN DIMENSION ELSE dim
            /\ result' = IF ok THEN "true" ELSE "false"
            /\ calls' = Append(calls, EnsureCall(dropped, created, ok, has, names, rows))
    /\ UNCHANGED pc
    /\ UNCHANGED <<chunkVars, pdfVars, extractVars, processVars, batchVars, pageVars,
                   sizeVars>>
    /\ UNCHANGED <<cleanVars, directoryVars, cliVars>>

CollectionNext == create_collection

CollectionSpec == CollectionInit /\ [][CollectionNext]_vars

\* the create_collection calls made so far
EnsureCalls == SelectSeq(calls, LAMBDA c : c.kind = "create_collection")

\* C19: a create_collection call that finds the collection with other fields
\* than the expected ones drops and recreates it, and whenever
\* create_collection returns True the collection exists with exactly the
\* fields id, document_id, page_number, chunk_id, text, embedding.
C19_MismatchRecreated ==
    \A n \in 1..Len(EnsureCalls) :
        LET c == EnsureCalls[n]
        IN /\ (c.ok /\ c.before.has /\ c.before.names # expected_field_names) =>
                 c.dropped /\ c.created /\ c.after.rows = <<>>
           /\ c.ok => c.after.has /\ c.after.names = expected_field_names
           /\ n = Len(EnsureCalls) =>
                 /\ c.after = [has |-> has_collection, names |-> fields, rows |-> store]
                 /\ c.ok <=> result = "true"

\* a collection of another application with a row was dropped and recreated
C19_Witness ==
    /\ Len(EnsureCalls) = 1
    /\ EnsureCalls[1].before = [has |-> TRUE, names |-> <<"id", "vector">>,
                                rows |-> <<ExistingRow>>]
    /\ result = "true"
    /\ has_collection
    /\ fields = expected_field_names
    /\ store = <<>>

ChunksHeld ==
    LET taken == IF pc \in {"embed", "validate", "insert"} THEN i + batch_size ELSE i
    IN Len(all_chunks) - Min(Len(all_chunks), taken)

\* C21: at every point of the ingest of one document the pipeline holds at
\* most batch_size chunks that are generated and not yet flushed to embedding
\* and storage, however many pages and chunks the document has.
C21_HeldChunksBounded ==
    entry = "batch" => ChunksHeld <= batch_size

\* the extracted pages held: the pages list of extract_text_from_pdf, which
\* process_pdf walks afterwards; in process_pdf_page_by_page the one page whose
\* pieces are being embedded
PagesResident ==
    IF entry = "batch" THEN Len(pages)
    ELSE IF pc = "page_chunk" THEN 1 ELSE 0

\* C22: at most one extracted page is resident at any time: a page is
\* released before the next one is extracted, whatever the length of the
\* document.
C22_OnePageResident ==
    entry \in {"batch", "page"} => PagesResident <= 1

(***************************************************************************)
(* main of src/pdf_to_milvus_batch.py (:321-379) and of                    *)
(* src/pdf_page_processor.py (:295-347), with --pdf or --directory, around *)
(* the ingest of one PDF and the directory loop.                           *)
(***************************************************************************)
MainInit ==
    /\ entry \in {"batch", "page"}
    /\ mode \in {"pdf", "directory"}
    /\ exit_code = "none"
    /\ dir_exists \in BOOLEAN
    /\ listing \in Listings
    /\ (mode = "pdf" \/ ~dir_exists) => listing = <<>>
    /\ mode = "pdf" => ~dir_exists
    /\ pdf_exists \in BOOLEAN
    /\ pdf_opens \in BOOLEAN
    /\ doc \in DirDocs
    /\ pdf_opens => pdf_exists
    /\ ~pdf_opens => doc = <<>>
    /\ mode = "directory" => ~pdf_exists
    /\ pdf_files = <<>>
    /\ file_idx = 1
    /\ results = <<>>
    /\ document_id = DocumentId
    /\ processor = "PDFProcessor"
    /\ chunk_size = 2
    /\ chunk_overlap = 0
    /\ batch_size = 1
    /\ embedding_batch_size = 1
    /\ words = <<>>
    /\ chunk_id = 0
    /\ start = 0
    /\ chunks = <<>>
    /\ store = <<>>
    /\ page_num = 0
    /\ pages = <<>>
    /\ page_idx = 1
    /\ all_chunks = <<>>
    /\ chunk_counter = 0
    /\ i = 0
    /\ batch = <<>>
    /\ j = 0
    /\ chunks_with_embeddings = <<>>
    /\ v = 1
    /\ valid_chunks = <<>>
    /\ successful_chunks = 0
    /\ failed_chunks = 0
    /\ page_chunks = <<>>
    /\ chunk_idx = 0
    /\ total_embeddings = 0
    /\ result = "none"
    /\ calls = <<>>
    /\ faults = MaxFaults - 1
    /\ text = <<>>
    /\ raw_text = <<>>
    /\ has_collection = TRUE
    /\ fields = expected_field_names
    /\ has_index = TRUE
    /\ dim = DIMENSION
    /\ pc = "main"

\* the exit code of a process whose main returns
ReturnFromMain == 0

\* up to the dispatch on args: PDFToMilvusBatch.initialize() returning False
\* makes main return; PDFPageProcessor() raises when Milvus cannot be
\* reached, and the uncaught exception ends the process with code 1
MainStart ==
    /\ pc = "main"
    /\ \E initialized \in BOOLEAN :
         /\ Fault(~initialized)
         /\ IF ~initialized
            THEN /\ exit_code' = IF entry = "batch" THEN ReturnFromMain ELSE 1
                 /\ pc' = "exited"
            ELSE /\ pc' = IF mode = "directory" THEN "dir"
                          ELSE IF entry = "batch" THEN "store_pdf" ELSE "page_by_page"
                 /\ UNCHANGED exit_code
    /\ UNCHANGED <<chunkVars, pdfVars, extractVars, processVars, batchVars, pageVars,
                   sizeVars, result, store, calls>>
    /\ UNCHANGED <<cleanVars, collectionVars, directoryVars, mode>>

\* "successful = sum(...); total = len(results)"
AllSuccessful == \A f \in DOMAIN results : results[f].success

\* what main does with the outcome: pdf_to_milvus_batch.py logs it and
\* returns; pdf_page_processor.py calls sys.exit(1) on a failure
ExitCodeAfter(success) ==
    IF entry = "batch" THEN ReturnFromMain
    ELSE IF success THEN ReturnFromMain ELSE 1

\* the ingest or the directory loop returned to main
MainExit ==
    /\ \/ mode = "pdf" /\ pc = "done" /\ exit_code' = ExitCodeAfter(result = "true")
       \/ mode = "directory" /\ pc = "dir_done" /\ exit_code' = ExitCodeAfter(AllSuccessful)
    /\ pc' = "exited"
    /\ UNCHANGED <<chunkVars, pdfVars, extractVars, processVars, batchVars, pageVars,
                   sizeVars, result, store, calls, faults>>
    /\ UNCHANGED <<cleanVars, collectionVars, directoryVars, mode>>

MainNext == MainStart \/ MainExit \/ DirNext

MainSpec == MainInit /\ [][MainNext]_vars

\* the files main was asked to ingest that were ingested successfully, and
\* those that were not
FileIngested(f) ==
    IF mode = "pdf" THEN result = "true"
    ELSE f \in DOMAIN results /\ results[f].success

RequestedFiles == IF mode = "pdf" THEN {DocumentId} ELSE PdfFilesOfDirectory

\* C23: the command-line entry point exits with code 0 when every requested
\* file was ingested successfully and with a non-zero code when a requested
\* file failed to ingest, with --pdf as with --directory.
C23_ExitCode ==
    pc = "exited" =>
        /\ (RequestedFiles # {} /\ \A f \in RequestedFiles : FileIngested(f)) => exit_code = 0
        /\ (\E f \in RequestedFiles : ~FileIngested(f)) => exit_code # 0

(***************************************************************************)
(* The ingest of one PDF run twice with the same document_id, by either    *)
(* entry point.                                                            *)
(***************************************************************************)
\* history entry of the second call of the ingest: the rows of the
\* collection when it is made
Rerun(rows) ==
    [kind |-> "rerun", at |-> 0, ids |-> <<>>, vectors |-> <<>>, ok |-> TRUE, rows |-> rows]

Reruns == SelectSeq(calls, LAMBDA c : c.kind = "rerun")

\* The text splitter of the page entry point gives the same pieces for the
\* same text, so its pages are of one word here, which has one split.
RerunInit ==
    /\ IngestInit
    /\ chunk_overlap = 0
    /\ batch_size = 1
    /\ Len(doc) <= 2
    /\ entry = "page" => \A p \in 1..Len(doc) : Cardinality(Splits(TextOf(doc[p]))) <= 1

\* the ingest returned and is called again for the same pdf_path and
\* document_id; it starts with fresh locals
IngestAgain ==
    /\ pc = "done"
    /\ Reruns = <<>>
    /\ calls' = Append(calls, Rerun(store))
    /\ pc' = IF entry = "batch" THEN "store_pdf" ELSE "page_by_page"
    /\ result' = "none"
    /\ words' = <<>>
    /\ chunk_id' = 0
    /\ start' = 0
    /\ chunks' = <<>>
    /\ page_num' = 0
    /\ pages' = <<>>
    /\ page_idx' = 1
    /\ all_chunks' = <<>>
    /\ chunk_counter' = 0
    /\ i' = 0
    /\ batch' = <<>>
    /\ j' = 0
    /\ chunks_with_embeddings' = <<>>
    /\ v' = 1
    /\ valid_chunks' = <<>>
    /\ successful_chunks' = 0
    /\ failed_chunks' = 0
    /\ page_chunks' = <<>>
    /\ chunk_idx' = 0
    /\ total_embeddings' = 0
    /\ UNCHANGED <<processor, chunk_size, chunk_overlap, pdfVars, sizeVars, store, faults>>
    /\ UNCHANGED otherVars

RerunNext == IngestNext \/ IngestAgain

RerunSpec == RerunInit /\ [][RerunNext]_vars

\* the rows of the first run
FirstRunRows == Reruns[1].rows

\* the number of rows with the document_id and chunk_id of r
RowsLike(r) ==
    Cardinality({k \in 1..Len(store) : /\ store[k].document_id = r.document_id
                                       /\ store[k].chunk_id = r.chunk_id})

\* C24: ingest is append-only: during a second ingest of the same PDF under
\* the same document_id the rows of the first run stay as they are and the
\* second run's rows are added after them; when both runs stored the whole
\* document the collection then holds two rows for every (document_id,
\* chunk_id).
C24_AppendOnly ==
    Reruns # <<>> =>
        /\ Len(store) >= Len(FirstRunRows)
        /\ SubSeq(store, 1, Len(FirstRunRows)) = FirstRunRows
        /\ (pc = "done" /\ faults = 0) =>
              /\ store = FirstRunRows \o FirstRunRows
              /\ \A k \in 1..Len(store) : RowsLike(store[k]) = 2

\* a document of two chunks stored twice
C24_Witness ==
    /\ Reruns # <<>>
    /\ pc = "done"
    /\ faults = 0
    /\ Len(FirstRunRows) = 2
    /\ Len(store) = 4

\* C25: when the batch ingest has finished a document for which N > 0 chunks
\* were generated, successful_chunks + failed_chunks = N, so that the
\* denominator of the success rate is N and not zero.
C25_EveryChunkCounted ==
    (entry = "batch" /\ pc = "done" /\ Len(all_chunks) > 0) =>
        /\ successful_chunks + failed_chunks = Len(all_chunks)
        /\ successful_chunks + failed_chunks > 0

\* the stage of the document in hand in store_pdf_with_progress, by the place
\* the call is at; at the head of the batch loop the next batch's embedding
\* is about to begin while a batch remains, and the summary follows the last
\* insertion otherwise.  "NONE": no document is in hand.
Stage ==
    CASE pc = "store_pdf" -> "NOT_STARTED"
      [] pc \in {"extract_open", "extract"} -> "EXTRACTING"
      [] pc \in {"process_pdf", "chunk_text", "chunk_loop", "chunk_done"} -> "CHUNKING"
      [] pc = "batch_loop" /\ i < Len(all_chunks) -> "EMBEDDING"
      [] pc \in {"embed", "validate"} -> "EMBEDDING"
      [] pc = "insert" -> "STORING"
      [] pc = "batch_loop" /\ i >= Len(all_chunks) -> "STORING"
      [] pc = "done" /\ result = "true" -> "DONE"
      [] pc = "done" /\ result # "true" -> "ERROR"
      [] OTHER -> "NONE"

StageOrder == <<"NOT_STARTED", "EXTRACTING", "CHUNKING", "EMBEDDING", "STORING", "DONE", "ERROR">>

StageRank(s) == CHOOSE k \in 1..Len(StageOrder) : StageOrder[k] = s

\* a step of the batch pipeline keeps the order of the stages
StagesStep ==
    entry = "batch" =>
        /\ (Stage # "NONE" /\ Stage' # "NONE") => StageRank(Stage') >= StageRank(Stage)
        /\ Stage = "ERROR" => /\ Stage' \in {"ERROR", "NONE"}
                              /\ calls' = calls
                              /\ store' = store
        /\ (Stage = "NONE" /\ Stage' # "NONE") => Stage' = "NOT_STARTED"

\* C26: per document the batch pipeline goes through NOT_STARTED, EXTRACTING,
\* CHUNKING, EMBEDDING, STORING, DONE in that order and never back to a stage
\* once a later one has begun; a document in ERROR stays there, with no
\* further embedding or insertion, and the next document of a directory run
\* starts from NOT_STARTED.
C26_StagesInOrder == [][StagesStep]_vars

\* the chunk_ids of the chunks handed to the embedding step so far, in the
\* order handed: those of the embed calls 1..n of the history
RECURSIVE HandedIds(_)
HandedIds(n) ==
    IF n = 0 THEN <<>>
    ELSE IF calls[n].kind = "embed" THEN HandedIds(n - 1) \o calls[n].ids
    ELSE HandedIds(n - 1)

\* the chunk_ids of the first n generated chunks
GeneratedIds(n) == [k \in 1..Min(n, Len(all_chunks)) |-> all_chunks[k].chunk_id]

\* C27: the batches store_pdf_with_progress hands to the embedding step are
\* the consecutive slices of the generated chunks: each starts where the one
\* before ended, is not empty and has batch_size chunks unless it is the last,
\* which holds the remainder; the chunks handed on so far are a prefix of the
\* generated chunks, each once and in order, and when the loop has ended they
\* are all the generated chunks.
C27_BatchesPartitionChunks ==
    (entry = "batch" /\ all_chunks # <<>>) =>
        /\ pc \in {"batch_loop", "embed", "validate", "insert"} => i % batch_size = 0
        /\ pc \in {"embed", "validate", "insert"} =>
              /\ batch = SubSeq(all_chunks, i + 1, Min(i + batch_size, Len(all_chunks)))
              /\ batch # <<>>
              /\ Len(batch) = batch_size \/ i + Len(batch) = Len(all_chunks)
        /\ pc = "batch_loop" => HandedIds(Len(calls)) = GeneratedIds(i)
        /\ pc = "embed" => HandedIds(Len(calls)) = GeneratedIds(Min(i + j, i + Len(batch)))
        /\ pc \in {"validate", "insert"} => HandedIds(Len(calls)) = GeneratedIds(i + batch_size)
        /\ pc = "done" => HandedIds(Len(calls)) = GeneratedIds(Len(all_chunks))

\* C27's case: three chunks ingested in a batch of two and a last batch of
\* one chunk
C27_Witness ==
    /\ entry = "batch"
    /\ pc = "done"
    /\ batch_size = 2
    /\ Len(all_chunks) = 3
    /\ HandedIds(Len(calls)) = GeneratedIds(3)

\* the calls of the embedding collaborator (the model behind
\* generate_embeddings and generate_single_embedding) made so far
CollaboratorCalls == SelectSeq(calls, LAMBDA c : c.kind \in {"embed", "probe", "single"})

\* the number of embedding sub-batches of the batches that start before
\* offset f
RECURSIVE SubBatchesBefore(_)
SubBatchesBefore(f) ==
    IF f <= 0 THEN 0
    ELSE LET from == ((f - 1) \div batch_size) * batch_size
             n == Min(f, Len(all_chunks)) - from
         IN SubBatchesBefore(from)
               + (n + embedding_batch_size - 1) \div embedding_batch_size

\* C28: during the batch ingest the embedding collaborator is called once per
\* embedding sub-batch and at no other time: every call of it is a
\* generate_embeddings call for a sub-batch, and when the ingest of a document
\* with chunks has returned, the number of calls is the number of sub-batches.
C28_OneCallPerSubBatch ==
    entry = "batch" =>
        /\ \A k \in 1..Len(CollaboratorCalls) : CollaboratorCalls[k].kind = "embed"
        /\ (pc = "done" /\ all_chunks # <<>>) =>
              Len(CollaboratorCalls) = SubBatchesBefore(Len(all_chunks))

(***************************************************************************)
(* The batch ingest of a PDF whose chunks are about MAX_TEXT_LENGTH         *)
(* characters long.                                                        *)
(***************************************************************************)
\* the number of words of WordChars characters that ' '.join leaves within
\* MAX_TEXT_LENGTH characters
FitWords == (MAX_TEXT_LENGTH + 1) \div (WordChars + 1)

\* chunk sizes at and just above that number of words
LongConfigs == {FitWords, FitWords + 1} \X {0, 1}

\* PDFs of one page of about that many words
LongDocs == {<<n>> : n \in (FitWords - 1)..(FitWords + 2)}

LongTextInit ==
    /\ entry = "batch"
    /\ pdf_exists = TRUE
    /\ pdf_opens = TRUE
    /\ doc \in LongDocs
    /\ processor = "PDFProcessor"
    /\ \E c \in LongConfigs :
         /\ chunk_size = c[1]
         /\ chunk_overlap = c[2]
    /\ \E sizes \in IngestSizes :
         /\ batch_size = sizes[1]
         /\ embedding_batch_size = sizes[2]
    /\ words = <<>>
    /\ chunk_id = 0
    /\ start = 0
    /\ chunks = <<>>
    /\ store = <<>>
    /\ IdleBatch
    /\ pc = "store_pdf"
    /\ IdleOther


\* the steps of store_pdf_with_progress
StorePdfNext ==
    \/ StorePdfEntry
    \/ ExtractOpen
    \/ ExtractPage
    \/ ExtractReturn
    \/ ProcessPage
    \/ ChunkTextEntry
    \/ ChunkLoop
    \/ PageChunked
    \/ ProcessReturn
    \/ BatchLoop
    \/ EmbedSubBatch
    \/ EmbedReturn
    \/ ValidateChunk
    \/ ValidateReturn
    \/ InsertBatch

LongTextSpec == LongTextInit /\ [][StorePdfNext]_vars

\* C29: every chunk the chunker emits has a text of at most MAX_TEXT_LENGTH
\* characters, and the text of every stored row is the text of the generated
\* chunk of that chunk_id, which is the text that was embedded.
C29_StoredTextIsEmbeddedText ==
    entry = "batch" =>
        /\ \A k \in 1..Len(all_chunks) : TextChars(all_chunks[k].text) <= MAX_TEXT_LENGTH
        /\ \A k \in 1..Len(store) :
             \E n \in 1..Len(all_chunks) :
                 /\ all_chunks[n].chunk_id = store[k].chunk_id
                 /\ all_chunks[n].text = store[k].text

\* C30: whenever create_collection has returned True, the collection exists
\* and its embedding field has dim DIMENSION of the configured backend, also
\* when a collection with the expected field names and another dim was there
\* before the call.
C30_EmbeddingFieldHasDimension ==
    (pc = "create_collection" /\ result = "true") =>
        /\ has_collection
        /\ dim = DIMENSION

====
